---------------------------- MODULE Spec2Model ----------------------------
(***************************************************************************)
(* State-machine model of the duty scheduling engine of TreaBet/hemsire    *)
(* (src/services/scheduler.ts, class Scheduler, lines 1-576).              *)
(*                                                                         *)
(* One run of the model is: construction of a Scheduler from the caller's  *)
(* staff list, service list and configuration, then one call of            *)
(* generate().  generate() is synchronous; its loops are cut into steps    *)
(* (one attempt, one day, one iteration of each phase loop) so that the    *)
(* intermediate states of an attempt are states of the model.              *)
(*                                                                         *)
(* Math.random() is modelled as a nondeterministic choice: the day order   *)
(* among days of equal difficulty, the shuffle of the services in Phase 1  *)
(* and the score jitter in findBestCandidate.                              *)
(*                                                                         *)
(* The calendar (new Date(year, month, day).getDay()) is modelled by the   *)
(* weekday of day 1 (config.firstDow) and the length of the month          *)
(* (config.monthLength); months are shortened to MaxDays days.             *)
(* Fields that no decision of the engine reads (staffName, isEmergency,    *)
(* the emergency statistic is kept) are left out of the assignments.       *)
(***************************************************************************)
EXTENDS Integers, Sequences, FiniteSets, TLC

(***************************************************************************)
(* Bounds of the model                                                     *)
(***************************************************************************)
MaxDays == 4

MaxRetries == 2

(***************************************************************************)
(* Program constants                                                       *)
(***************************************************************************)
Infinity == 1000000

NoJuniorShifts == 999

ProtectionLimit == 50

JitterBound == 500

EMPTY == "EMPTY"

\* "undefined" for the optional numeric fields of CandidateOptions
Undef == 0

Transplantasyon == "Transplantasyon"

\* 'Yara Bakım' in the source (written in ASCII here)
YaraBakim == "Yara Bakim"

GenelCerrahi == "Genel Cerrahi"

KBB == "KBB"

(***************************************************************************)
(* Generic helpers                                                         *)
(***************************************************************************)
Range(seq) == {seq[k] : k \in DOMAIN seq}

Min(S) == CHOOSE x \in S : \A y \in S : x <= y

Max(S) == CHOOSE x \in S : \A y \in S : x >= y

Abs(x) == IF x < 0 THEN -x ELSE x

\* Array.prototype.filter: the subsequence of the elements whose flag in keep
\* (a sequence of booleans of the same length) is TRUE
RECURSIVE FilterSeq(_, _)
FilterSeq(seq, keep) ==
    IF seq = << >> THEN << >>
    ELSE IF keep[1]
         THEN <<Head(seq)>> \o FilterSeq(Tail(seq), Tail(keep))
         ELSE FilterSeq(Tail(seq), Tail(keep))

\* Array.prototype.sort with a comparator (a, b) => key(b) - key(a): the sort
\* is stable, so elements of equal key keep their order.  keys[k] is the key
\* of the k-th element; the result is the sequence of indices in sorted order.
StableDescOrder(keys) ==
    LET n == Len(keys)
        Before(j, k) == keys[j] > keys[k] \/ (keys[j] = keys[k] /\ j < k)
    IN  [p \in 1..n |->
            CHOOSE k \in 1..n : Cardinality({j \in 1..n : Before(j, k)}) = p - 1]

\* All orders of the indices 1..n
Permutations1(n) ==
    {p \in [1..n -> 1..n] : \A a, b \in 1..n : a # b => p[a] # p[b]}

\* String.prototype.trim on a room identifier, a sequence of characters
IsSpace(c) == c = " "

RECURSIVE TrimLeft(_)
TrimLeft(s) ==
    IF s # << >> /\ IsSpace(Head(s)) THEN TrimLeft(Tail(s)) ELSE s

RECURSIVE TrimRight(_)
TrimRight(s) ==
    IF s # << >> /\ IsSpace(s[Len(s)])
    THEN TrimRight(SubSeq(s, 1, Len(s) - 1))
    ELSE s

Trim(s) == TrimRight(TrimLeft(s))

(***************************************************************************)
(* The caller's inputs (types.ts: Staff, Service, UnitConstraint,          *)
(* SchedulerConfig)                                                        *)
(***************************************************************************)
Person(id, role, unit, specialty, room, quota, wlimit, off, req, active) ==
    [id |-> id, role |-> role, unit |-> unit, specialty |-> specialty,
     room |-> room, quotaService |-> quota, weekendLimit |-> wlimit,
     offDays |-> off, requestedDays |-> req, isActive |-> active]

ServiceDef(id, min, max, units) ==
    [id |-> id, minDailyCount |-> min, maxDailyCount |-> max,
     allowedUnits |-> units]

Constraint(unit, days) == [unit |-> unit, allowedDays |-> days]

VARIABLES
    inStaff,            \* the staff list handed to the constructor
    inServices,         \* the service list handed to the constructor
    config,             \* the SchedulerConfig handed to the constructor
    pc,                 \* position of the caller / of generate()
    staff,              \* this.staff
    services,           \* this.services
    daysInMonth,        \* this.daysInMonth
    roommatesMap,       \* this.roommatesMap
    logs,               \* this.logs
    attempt,            \* generate: attempt
    bestResult,         \* generate: bestResult
    minUnfilled,        \* generate: minUnfilled
    bestDeviation,      \* generate: bestDeviation
    dayAssignmentsMap,  \* runSimulation: dayAssignmentsMap
    staffStats,         \* runSimulation: staffStats
    unfilledSlots,      \* runSimulation: unfilledSlots
    daysToProcess,      \* runSimulation: the days of daysToProcess not yet visited
    day,                \* runSimulation: day of the current iteration
    assignedTodayIds,   \* runSimulation: assignedTodayIds
    seniorAssignedToday,\* runSimulation: seniorAssignedToday
    cIdx,               \* Phase 0: index of the constraint of the next iteration
    sIdx,               \* Phase 2: index in dailyServices of the current service
    pos,                \* Phase 2: the loop variable i
    currentServiceCount,\* Phase 2: currentServiceCount
    currentTotalStaff,  \* Phase 3: currentTotalStaff
    protectionCounter,  \* Phase 3: protectionCounter
    phaseOf,            \* history: per day, the phase that pushed each entry of the day's list
    history             \* history: the result and totalDeviation of each finished attempt

inputVars == <<inStaff, inServices, config>>

engineVars == <<staff, services, daysInMonth, roommatesMap>>

generateVars == <<attempt, bestResult, minUnfilled, bestDeviation, history>>

attemptVars == <<dayAssignmentsMap, staffStats, unfilledSlots, daysToProcess, phaseOf>>

dayVars == <<day, assignedTodayIds, seniorAssignedToday, cIdx, sIdx, pos,
             currentServiceCount, currentTotalStaff, protectionCounter>>

vars == <<inputVars, pc, engineVars, logs, generateVars, attemptVars, dayVars>>

\* null / not yet allocated
Null == [null |-> TRUE]

(***************************************************************************)
(* Calendar helpers                                                        *)
(***************************************************************************)
\* getDayOfWeek: 0 = Sunday .. 6 = Saturday
getDayOfWeek(d) == (config.firstDow + d - 1) % 7

\* isWeekend that takes Friday and Saturday for the weekend
isWeekend_FridaySaturday(d) == getDayOfWeek(d) = 5 \/ getDayOfWeek(d) = 6

isWeekend(d) == getDayOfWeek(d) = 0 \/ getDayOfWeek(d) = 6

getDayDifficulty(d) ==
    LET dow == getDayOfWeek(d)
        constraints == {c \in Range(config.unitConstraints) : dow \in c.allowedDays}
    IN  IF \E c \in constraints : c.unit = Transplantasyon THEN 100
        ELSE IF \E c \in constraints : c.unit = YaraBakim THEN 90
        ELSE IF dow = 6 THEN 80
        ELSE IF dow = 0 THEN 60
        ELSE 10

getServiceDifficulty(service) ==
    IF service.allowedUnits # {}
    THEN 1000 - 10 * Cardinality({k \in DOMAIN staff :
                                     staff[k].unit \in service.allowedUnits})
    ELSE 1000

getPotentialCandidatesCount(service) ==
    Cardinality({k \in DOMAIN staff :
                    service.allowedUnits # {} => staff[k].unit \in service.allowedUnits})

\* hasShiftOnDay that does not compare the staff id
hasShiftOnDay_AnyEntry(assignmentsMap, d, staffId) ==
    /\ d \in DOMAIN assignmentsMap
    /\ assignmentsMap[d] # << >>

hasShiftOnDay(assignmentsMap, d, staffId) ==
    /\ d \in DOMAIN assignmentsMap
    /\ \E k \in DOMAIN assignmentsMap[d] : assignmentsMap[d][k].staffId = staffId

\* number of entries of a day's assignment list for one service
ServiceCount(assignments, serviceId) ==
    Cardinality({k \in DOMAIN assignments : assignments[k].serviceId = serviceId})

(***************************************************************************)
(* constructor and analyzeRoommates                                        *)
(***************************************************************************)
\* ActiveStaff that keeps the deactivated staff
ActiveStaff_All(list) == list

\* staff.filter(s => s.isActive !== false)
ActiveStaff(list) == FilterSeq(list, [k \in DOMAIN list |-> list[k].isActive # FALSE])

\* roomGroups.get(room): the ids of the staff whose room is exactly this
\* (untrimmed) identifier, in list order
RoomGroup(list, room) ==
    {list[k].id : k \in {j \in DOMAIN list :
                             Trim(list[j].room) # << >> /\ list[j].room = room}}

analyzeRoommates(list) ==
    [id \in {list[k].id : k \in DOMAIN list} |->
        LET s == list[CHOOSE k \in DOMAIN list : list[k].id = id]
        IN  IF Trim(s.room) # << >>
            THEN RoomGroup(list, s.room) \ {s.id}
            ELSE {}]

ZeroStats == [total |-> 0, service |-> 0, emergency |-> 0, weekend |-> 0,
              saturday |-> 0, sunday |-> 0]

(***************************************************************************)
(* findBestCandidate                                                       *)
(***************************************************************************)
\* CandidateOptions; Undef and "" stand for absent fields
Options(desperate, restrictRole, excludeRole, restrictSpecialty) ==
    [desperate |-> desperate, restrictRole |-> restrictRole,
     excludeRole |-> excludeRole, restrictSpecialty |-> restrictSpecialty]

\* staffStats.get(id)?.service || 0
ServiceShifts(stats, id) == IF id \in DOMAIN stats THEN stats[id].service ELSE 0

activeJuniors == {k \in DOMAIN staff : staff[k].role = 3 /\ staff[k].isActive = TRUE}

minJuniorShifts(stats) ==
    IF activeJuniors # {}
    THEN Min({ServiceShifts(stats, staff[k].id) : k \in activeJuniors})
    ELSE NoJuniorShifts

minShiftsByRole(stats, r) ==
    LET peers == {k \in DOMAIN staff : staff[k].role = r /\ staff[k].isActive = TRUE}
    IN  IF peers # {}
        THEN Min({ServiceShifts(stats, staff[k].id) : k \in peers})
        ELSE 0

\* the name of the UnitConstraint that belongs to a specialty tag
SpecName(specialty) ==
    IF specialty = "transplant" THEN Transplantasyon
    ELSE IF specialty = "wound" THEN YaraBakim
    ELSE ""

\* unitConstraints.find(c => c.unit === name): the first match, or Null
FindConstraint(name) ==
    LET ks == {k \in DOMAIN config.unitConstraints : config.unitConstraints[k].unit = name}
    IN  IF ks = {} THEN Null ELSE config.unitConstraints[Min(ks)]

\* UnitEligible in which a specialty constraint takes the place of the unit
\* constraint
UnitEligible_SpecialtyOverrides(person, service, d) ==
    LET dow == getDayOfWeek(d)
        constraint == FindConstraint(person.unit)
        specConstraint == FindConstraint(SpecName(person.specialty))
    IN  \/ person.role = 3
        \/ /\ service.allowedUnits # {} => person.unit \in service.allowedUnits
           /\ IF person.specialty # "" /\ person.specialty # "none" /\ specConstraint # Null
              THEN dow \in specConstraint.allowedDays
              ELSE constraint # Null => dow \in constraint.allowedDays

\* UnitEligible that does not read the allow-list of the service
UnitEligible_NoAllowList(person, service, d) ==
    LET dow == getDayOfWeek(d)
        constraint == FindConstraint(person.unit)
        specConstraint == FindConstraint(SpecName(person.specialty))
    IN  \/ person.role = 3
        \/ /\ constraint # Null => dow \in constraint.allowedDays
           /\ (person.specialty # "" /\ person.specialty # "none" /\ specConstraint # Null)
                  => dow \in specConstraint.allowedDays

\* UnitEligible without the day constraint of the specialty
UnitEligible_NoSpecialtyDays(person, service, d) ==
    LET dow == getDayOfWeek(d)
        constraint == FindConstraint(person.unit)
    IN  \/ person.role = 3
        \/ /\ service.allowedUnits # {} => person.unit \in service.allowedUnits
           /\ constraint # Null => dow \in constraint.allowedDays

\* 3. Unit matching and day constraints (skipped for role 3)
UnitEligible(person, service, d) ==
    LET dow == getDayOfWeek(d)
        constraint == FindConstraint(person.unit)
        specConstraint == FindConstraint(SpecName(person.specialty))
    IN  \/ person.role = 3
        \/ /\ service.allowedUnits # {} => person.unit \in service.allowedUnits
           /\ constraint # Null => dow \in constraint.allowedDays
           /\ (person.specialty # "" /\ person.specialty # "none" /\ specConstraint # Null)
                  => dow \in specConstraint.allowedDays

\* Available that does not read the days off
Available_IgnoresOffDays(person, d, assignedToday) ==
    person.id \notin assignedToday

\* 1. Availability
Available(person, d, assignedToday) ==
    /\ person.id \notin assignedToday
    /\ d \notin person.offDays

\* RestFree with the check of the following day forgotten
RestFree_PrevOnly(person, d, assignmentsMap) ==
    ~hasShiftOnDay(assignmentsMap, d - 1, person.id)

\* 2. Strict 24h shift rule
RestFree(person, d, assignmentsMap) ==
    /\ ~hasShiftOnDay(assignmentsMap, d - 1, person.id)
    /\ ~hasShiftOnDay(assignmentsMap, d + 1, person.id)

\* RoommateFree that looks at today only
RoommateFree_TodayOnly(person, d, assignedToday, assignmentsMap) ==
    LET roommates == IF person.id \in DOMAIN roommatesMap
                     THEN roommatesMap[person.id] ELSE {}
    IN  \A roommateId \in roommates : roommateId \notin assignedToday

\* 4. Roommate conflicts
RoommateFree(person, d, assignedToday, assignmentsMap) ==
    LET roommates == IF person.id \in DOMAIN roommatesMap
                     THEN roommatesMap[person.id] ELSE {}
    IN  \A roommateId \in roommates :
            /\ roommateId \notin assignedToday
            /\ ~hasShiftOnDay(assignmentsMap, d - 1, roommateId)
            /\ ~hasShiftOnDay(assignmentsMap, d + 1, roommateId)

\* QuotaFree with > in place of >=
QuotaFree_OffByOne(person, d, stats) ==
    /\ ~(stats[person.id].service > person.quotaService)
    /\ ~(isWeekend(d) /\ stats[person.id].weekend > person.weekendLimit)

\* 5. Quotas
QuotaFree(person, d, stats) ==
    /\ ~(stats[person.id].service >= person.quotaService)
    /\ ~(isWeekend(d) /\ stats[person.id].weekend >= person.weekendLimit)

\* ThursdayFree without the look ahead from a Thursday
ThursdayFree_BackwardOnly(person, d, assignmentsMap) ==
    LET dow == getDayOfWeek(d)
    IN  /\ ~(dow = 6 /\ hasShiftOnDay(assignmentsMap, d - 2, person.id))
        /\ ~(dow = 0 /\ hasShiftOnDay(assignmentsMap, d - 3, person.id))

\* 6. Thursday-weekend conflict
ThursdayFree(person, d, assignmentsMap) ==
    LET dow == getDayOfWeek(d)
    IN  /\ ~(dow = 6 /\ hasShiftOnDay(assignmentsMap, d - 2, person.id))
        /\ ~(dow = 0 /\ hasShiftOnDay(assignmentsMap, d - 3, person.id))
        /\ dow = 4 => /\ ~hasShiftOnDay(assignmentsMap, d + 2, person.id)
                      /\ ~hasShiftOnDay(assignmentsMap, d + 3, person.id)

\* VerticalFair with > in place of >=
VerticalFair_Strict(person, stats) ==
    ~(/\ person.role = 2
      /\ activeJuniors # {}
      /\ stats[person.id].service > minJuniorShifts(stats))

\* 7. Strict junior priority (vertical fairness)
VerticalFair(person, stats) ==
    ~(/\ person.role = 2
      /\ activeJuniors # {}
      /\ stats[person.id].service >= minJuniorShifts(stats))

\* HorizontalFair that blocks only a lead of more than one shift
HorizontalFair_ByMoreThanOne(person, stats) ==
    ~(stats[person.id].service > minShiftsByRole(stats, person.role) + 1)

\* 8. Strict horizontal fairness (same role balance)
HorizontalFair(person, stats) ==
    ~(stats[person.id].service > minShiftsByRole(stats, person.role))

\* 7. and 8. Fairness rules, skipped in desperate mode
Fair(person, stats, options) ==
    \/ options.desperate
    \/ /\ VerticalFair(person, stats)
       /\ HorizontalFair(person, stats)

\* PassesFilters in which desperate mode also skips the quota ceilings
PassesFilters_DesperateSkipsQuota(person, service, d, assignedToday, assignmentsMap, stats, options) ==
    /\ options.restrictRole # Undef => person.role = options.restrictRole
    /\ options.excludeRole # Undef => person.role # options.excludeRole
    /\ options.restrictSpecialty # "" => person.specialty = options.restrictSpecialty
    /\ Available(person, d, assignedToday)
    /\ RestFree(person, d, assignmentsMap)
    /\ UnitEligible(person, service, d)
    /\ RoommateFree(person, d, assignedToday, assignmentsMap)
    /\ options.desperate \/ QuotaFree(person, d, stats)
    /\ ThursdayFree(person, d, assignmentsMap)
    /\ Fair(person, stats, options)

\* the predicate of this.staff.filter(person => ...)
PassesFilters(person, service, d, assignedToday, assignmentsMap, stats, options) ==
    /\ options.restrictRole # Undef => person.role = options.restrictRole
    /\ options.excludeRole # Undef => person.role # options.excludeRole
    /\ options.restrictSpecialty # "" => person.specialty = options.restrictSpecialty
    /\ Available(person, d, assignedToday)
    /\ RestFree(person, d, assignmentsMap)
    /\ UnitEligible(person, service, d)
    /\ RoommateFree(person, d, assignedToday, assignmentsMap)
    /\ QuotaFree(person, d, stats)
    /\ ThursdayFree(person, d, assignmentsMap)
    /\ Fair(person, stats, options)

\* BaseScore with a tenth of the weight on the remaining quota
BaseScore_WeakHunger(person, d, assignmentsMap, stats, options) ==
    LET specConstraint == FindConstraint(SpecName(person.specialty))
    IN    (IF options.restrictSpecialty # "" /\ person.specialty = options.restrictSpecialty
           THEN 500000 ELSE 0)
        + (IF /\ person.specialty # "" /\ person.specialty # "none"
              /\ specConstraint # Null
              /\ getDayOfWeek(d) \in specConstraint.allowedDays
           THEN 100000 ELSE 0)
        + (IF d \in person.requestedDays THEN 20000 ELSE 0)
        + (IF person.role = 3 THEN 2000 ELSE 0)
        + (person.quotaService - stats[person.id].service) * 200
        - (IF isWeekend(d) THEN stats[person.id].weekend * 2000 ELSE 0)
        - (IF config.preventEveryOtherDay /\ hasShiftOnDay(assignmentsMap, d - 2, person.id)
           THEN 1000 ELSE 0)

\* the score of a candidate without the Math.random() * 500 term
BaseScore(person, d, assignmentsMap, stats, options) ==
    LET specConstraint == FindConstraint(SpecName(person.specialty))
    IN    (IF options.restrictSpecialty # "" /\ person.specialty = options.restrictSpecialty
           THEN 500000 ELSE 0)
        + (IF /\ person.specialty # "" /\ person.specialty # "none"
              /\ specConstraint # Null
              /\ getDayOfWeek(d) \in specConstraint.allowedDays
           THEN 100000 ELSE 0)
        + (IF d \in person.requestedDays THEN 20000 ELSE 0)
        + (IF person.role = 3 THEN 2000 ELSE 0)
        + (person.quotaService - stats[person.id].service) * 2000
        - (IF isWeekend(d) THEN stats[person.id].weekend * 2000 ELSE 0)
        - (IF config.preventEveryOtherDay /\ hasShiftOnDay(assignmentsMap, d - 2, person.id)
           THEN 1000 ELSE 0)

\* the staff that pass the filters
Candidates(service, d, assignedToday, assignmentsMap, stats, options) ==
    {staff[k] : k \in {j \in DOMAIN staff :
        PassesFilters(staff[j], service, d, assignedToday, assignmentsMap, stats, options)}}

\* findBestCandidate that returns any member of staff who passes the filters
findBestCandidate_AnyCandidate(service, d, assignedToday, assignmentsMap, stats, options) ==
    Candidates(service, d, assignedToday, assignmentsMap, stats, options)

\* The staff findBestCandidate can return: a candidate tops the sorted list
\* for some draw of the jitters (each in [0, 500)) exactly when its score
\* plus the jitter bound exceeds every other candidate's score.  The empty
\* set stands for the result null.
findBestCandidate(service, d, assignedToday, assignmentsMap, stats, options) ==
    LET cands == Candidates(service, d, assignedToday, assignmentsMap, stats, options)
    IN  {p \in cands : \A q \in cands :
            BaseScore(p, d, assignmentsMap, stats, options) + JitterBound
                > BaseScore(q, d, assignmentsMap, stats, options)}

(***************************************************************************)
(* Construction                                                            *)
(***************************************************************************)
\* new Scheduler(staff, services, config)
Construct ==
    /\ pc = "new"
    /\ staff' = ActiveStaff(inStaff)
    /\ services' = inServices
    /\ daysInMonth' = config.monthLength
    /\ roommatesMap' = analyzeRoommates(ActiveStaff(inStaff))
    /\ pc' = "constructed"
    /\ UNCHANGED <<inputVars, logs, generateVars, attemptVars, dayVars>>

(***************************************************************************)
(* generate                                                                *)
(***************************************************************************)
\* entry of generate(): the three locals before the retry loop
GenerateStart ==
    /\ pc = "constructed"
    /\ bestResult' = Null
    /\ minUnfilled' = Infinity
    /\ bestDeviation' = Infinity
    /\ attempt' = 0
    /\ pc' = "retry"
    /\ UNCHANGED <<inputVars, engineVars, logs, history, attemptVars, dayVars>>

\* the retry loop entered once more than configured
LoopContinues_Inclusive == attempt <= config.maxRetries

\* the condition of the retry loop: attempt < this.config.maxRetries
LoopContinues == attempt < config.maxRetries

\* DayOrders without the sort: the days in calendar order
DayOrders_CalendarOrder == {[d \in 1..daysInMonth |-> d]}

\* the days 1..daysInMonth in the orders daysToProcess.sort can leave them in
DayOrders ==
    LET keys == [d \in 1..daysInMonth |-> getDayDifficulty(d)]
    IN  IF config.randomizeOrder
        THEN {p \in Permutations1(daysInMonth) :
                 \A k \in 1..(daysInMonth - 1) : keys[p[k]] >= keys[p[k + 1]]}
        ELSE {StableDescOrder(keys)}

\* RunSimulationStart with the statistics carried over from the retained
\* result instead of a fresh map
RunSimulationStart_CarriesStats ==
    /\ pc = "retry"
    /\ LoopContinues
    /\ logs' = << >>
    /\ dayAssignmentsMap' = [d \in 1..daysInMonth |-> << >>]
    /\ staffStats' =
          [id \in {staff[k].id : k \in DOMAIN staff} |->
              IF bestResult = Null THEN ZeroStats
              ELSE LET st == bestResult.stats[CHOOSE k \in DOMAIN bestResult.stats :
                                                 bestResult.stats[k].staffId = id]
                   IN  [total |-> st.totalShifts, service |-> st.serviceShifts,
                        emergency |-> st.emergencyShifts, weekend |-> st.weekendShifts,
                        saturday |-> st.saturdayShifts, sunday |-> st.sundayShifts]]
    /\ unfilledSlots' = 0
    /\ phaseOf' = [d \in 1..daysInMonth |-> << >>]
    /\ \E order \in DayOrders : daysToProcess' = order
    /\ pc' = "dayloop"
    /\ UNCHANGED <<inputVars, engineVars, generateVars, dayVars>>

\* one iteration of the retry loop begins: the head of runSimulation
RunSimulationStart ==
    /\ pc = "retry"
    /\ LoopContinues
    /\ logs' = << >>
    /\ dayAssignmentsMap' = [d \in 1..daysInMonth |-> << >>]
    /\ staffStats' = [id \in {staff[k].id : k \in DOMAIN staff} |-> ZeroStats]
    /\ unfilledSlots' = 0
    /\ phaseOf' = [d \in 1..daysInMonth |-> << >>]
    /\ \E order \in DayOrders : daysToProcess' = order
    /\ pc' = "dayloop"
    /\ UNCHANGED <<inputVars, engineVars, generateVars, dayVars>>

\* the ScheduleResult runSimulation returns
BuildResult ==
    [schedule |-> [d \in 1..daysInMonth |->
                      [day |-> d,
                       assignments |-> dayAssignmentsMap[d],
                       isWeekend |-> isWeekend(d)]],
     unfilledSlots |-> unfilledSlots,
     logs |-> logs,
     stats |-> [k \in DOMAIN staff |->
                  LET st == staffStats[staff[k].id]
                  IN  [staffId |-> staff[k].id,
                       totalShifts |-> st.total,
                       serviceShifts |-> st.service,
                       emergencyShifts |-> st.emergency,
                       weekendShifts |-> st.weekend,
                       saturdayShifts |-> st.saturday,
                       sundayShifts |-> st.sunday]]]

\* currentResult.stats.reduce(...): sum of |quotaService - serviceShifts|
RECURSIVE SumDeviation(_, _)
SumDeviation(stats, k) ==
    IF k > Len(stats) THEN 0
    ELSE LET defs == {j \in DOMAIN staff : staff[j].id = stats[k].staffId}
         IN  (IF defs = {} THEN 0
              ELSE Abs(staff[Min(defs)].quotaService - stats[k].serviceShifts))
             + SumDeviation(stats, k + 1)

totalDeviation(result) == SumDeviation(result.stats, 1)

\* ReplacesBest with the comparison of the unfilled counts inverted
ReplacesBest_Inverted(result) ==
    \/ result.unfilledSlots > minUnfilled
    \/ minUnfilled = Infinity
    \/ result.unfilledSlots = minUnfilled /\ totalDeviation(result) < bestDeviation

\* ReplacesBest without the tie-break on the deviation
ReplacesBest_NoTieBreak(result) == result.unfilledSlots < minUnfilled

\* ReplacesBest keeping only attempts without unfilled slots
ReplacesBest_OnlyComplete(result) ==
    /\ result.unfilledSlots = 0
    /\ \/ result.unfilledSlots < minUnfilled
       \/ result.unfilledSlots = minUnfilled /\ totalDeviation(result) < bestDeviation

\* ReplacesBest in which an equal deviation also replaces the best
ReplacesBest_TieReplaces(result) ==
    \/ result.unfilledSlots < minUnfilled
    \/ result.unfilledSlots = minUnfilled /\ totalDeviation(result) <= bestDeviation

\* the comparison of generate: does the finished attempt replace bestResult?
ReplacesBest(result) ==
    \/ result.unfilledSlots < minUnfilled
    \/ result.unfilledSlots = minUnfilled /\ totalDeviation(result) < bestDeviation

\* the day loop of runSimulation is over: the result is built and generate
\* compares it with the best so far
SimulationEnd ==
    /\ pc = "dayloop"
    /\ daysToProcess = << >>
    /\ LET currentResult == BuildResult
           deviation == totalDeviation(currentResult)
       IN  /\ IF ReplacesBest(currentResult)
              THEN /\ bestResult' = currentResult
                   /\ bestDeviation' = deviation
                   /\ minUnfilled' = IF currentResult.unfilledSlots < minUnfilled
                                     THEN currentResult.unfilledSlots
                                     ELSE minUnfilled
              ELSE UNCHANGED <<bestResult, bestDeviation, minUnfilled>>
           /\ history' = Append(history, [result |-> currentResult,
                                          totalDeviation |-> deviation])
    /\ attempt' = attempt + 1
    /\ dayAssignmentsMap' = << >>
    /\ staffStats' = << >>
    /\ unfilledSlots' = 0
    /\ phaseOf' = << >>
    /\ pc' = "retry"
    /\ UNCHANGED <<inputVars, engineVars, logs, daysToProcess, dayVars>>

\* the retry loop is over and an attempt was kept
GenerateReturn ==
    /\ pc = "retry"
    /\ ~LoopContinues
    /\ bestResult # Null
    /\ pc' = "returned"
    /\ UNCHANGED <<inputVars, engineVars, logs, generateVars, attemptVars, dayVars>>

\* the retry loop is over and bestResult is null: throw new Error(...)
GenerateThrow ==
    /\ pc = "retry"
    /\ ~LoopContinues
    /\ bestResult = Null
    /\ pc' = "thrown"
    /\ UNCHANGED <<inputVars, engineVars, logs, generateVars, attemptVars, dayVars>>

(***************************************************************************)
(* runSimulation: the day loop                                             *)
(***************************************************************************)
currentDayAssignments == dayAssignmentsMap[day]

\* [...this.services].sort by getServiceDifficulty, descending (Phases 0 and 2)
dailyServices ==
    LET order == StableDescOrder([k \in DOMAIN services |-> getServiceDifficulty(services[k])])
    IN  [k \in DOMAIN services |-> services[order[k]]]

\* the index of the first service for which the search finds someone, 0 when
\* there is none; found[k] is what the search for the k-th service can return
FirstWithCandidate(found) ==
    LET hits == {k \in DOMAIN found : found[k] # {}}
    IN  IF hits = {} THEN 0 ELSE Min(hits)

\* the values the day's locals have outside a day
IdleDay ==
    /\ day' = 0
    /\ assignedTodayIds' = {}
    /\ seniorAssignedToday' = FALSE
    /\ cIdx' = 0
    /\ sIdx' = 0
    /\ pos' = 0
    /\ currentServiceCount' = 0
    /\ currentTotalStaff' = 0
    /\ protectionCounter' = 0

\* DayStart with this.services sorted in place by difficulty instead of a copy
DayStart_SortsInPlace ==
    /\ pc = "dayloop"
    /\ daysToProcess # << >>
    /\ day' = Head(daysToProcess)
    /\ daysToProcess' = Tail(daysToProcess)
    /\ assignedTodayIds' = {}
    /\ seniorAssignedToday' = FALSE
    /\ cIdx' = 1
    /\ pc' = "phase0"
    /\ services' = dailyServices
    /\ UNCHANGED <<inputVars, staff, daysInMonth, roommatesMap, logs, generateVars,
                   dayAssignmentsMap, staffStats, unfilledSlots, phaseOf, sIdx, pos,
                   currentServiceCount, currentTotalStaff, protectionCounter>>

\* DayStart that leaves the day in the list of the days to process
DayStart_KeepsDay ==
    /\ pc = "dayloop"
    /\ daysToProcess # << >>
    /\ day' = Head(daysToProcess)
    /\ assignedTodayIds' = {}
    /\ seniorAssignedToday' = FALSE
    /\ cIdx' = 1
    /\ pc' = "phase0"
    /\ UNCHANGED <<inputVars, engineVars, logs, generateVars, dayAssignmentsMap,
                   staffStats, unfilledSlots, daysToProcess, phaseOf, sIdx, pos,
                   currentServiceCount, currentTotalStaff, protectionCounter>>

\* for (const day of daysToProcess): the locals of one iteration
DayStart ==
    /\ pc = "dayloop"
    /\ daysToProcess # << >>
    /\ day' = Head(daysToProcess)
    /\ daysToProcess' = Tail(daysToProcess)
    /\ assignedTodayIds' = {}
    /\ seniorAssignedToday' = FALSE
    /\ cIdx' = 1
    /\ pc' = "phase0"
    /\ UNCHANGED <<inputVars, engineVars, logs, generateVars, dayAssignmentsMap,
                   staffStats, unfilledSlots, phaseOf, sIdx, pos, currentServiceCount,
                   currentTotalStaff, protectionCounter>>

\* assignToSlot that counts the weekend shift on Saturdays only
assignToSlot_SaturdayWeekend(candidate, service, phase) ==
    /\ dayAssignmentsMap' =
          [dayAssignmentsMap EXCEPT ![day] =
              Append(@, [serviceId |-> service.id, staffId |-> candidate.id,
                         role |-> candidate.role, unit |-> candidate.unit])]
    /\ assignedTodayIds' = assignedTodayIds \cup {candidate.id}
    /\ staffStats' =
          [staffStats EXCEPT ![candidate.id] =
              [@ EXCEPT !.total = @ + 1,
                        !.service = @ + 1,
                        !.weekend = IF getDayOfWeek(day) = 6 THEN @ + 1 ELSE @,
                        !.saturday = IF getDayOfWeek(day) = 6 THEN @ + 1 ELSE @,
                        !.sunday = IF getDayOfWeek(day) = 0 THEN @ + 1 ELSE @]]
    /\ seniorAssignedToday' = (seniorAssignedToday \/ candidate.role = 1)
    /\ phaseOf' = [phaseOf EXCEPT ![day] = Append(@, phase)]

\* assignToSlot(candidate, service), called by the given phase
assignToSlot(candidate, service, phase) ==
    /\ dayAssignmentsMap' =
          [dayAssignmentsMap EXCEPT ![day] =
              Append(@, [serviceId |-> service.id, staffId |-> candidate.id,
                         role |-> candidate.role, unit |-> candidate.unit])]
    /\ assignedTodayIds' = assignedTodayIds \cup {candidate.id}
    /\ staffStats' =
          [staffStats EXCEPT ![candidate.id] =
              [@ EXCEPT !.total = @ + 1,
                        !.service = @ + 1,
                        !.weekend = IF isWeekend(day) THEN @ + 1 ELSE @,
                        !.saturday = IF getDayOfWeek(day) = 6 THEN @ + 1 ELSE @,
                        !.sunday = IF getDayOfWeek(day) = 0 THEN @ + 1 ELSE @]]
    /\ seniorAssignedToday' = (seniorAssignedToday \/ candidate.role = 1)
    /\ phaseOf' = [phaseOf EXCEPT ![day] = Append(@, phase)]

\* nothing is assigned in this step
NoAssignment ==
    UNCHANGED <<dayAssignmentsMap, assignedTodayIds, staffStats, seniorAssignedToday,
                phaseOf>>

\* Phase 0: the specialty a constraint reserves, "" when it reserves none
targetSpecialty(constraint) ==
    IF constraint.unit = YaraBakim THEN "wound"
    ELSE IF constraint.unit = Transplantasyon THEN "transplant"
    ELSE ""

\* Phase 0: currentDayAssignments.some(a => staff of a carries the specialty)
alreadyAssigned(specialty) ==
    \E k \in DOMAIN currentDayAssignments :
        \E j \in DOMAIN staff :
            /\ staff[j].id = currentDayAssignments[k].staffId
            /\ staff[j].specialty = specialty

\* eligibleServices keeping only the services with a minimum above one
eligibleServices_AboveOne ==
    FilterSeq(dailyServices, [k \in DOMAIN dailyServices |->
                                 dailyServices[k].minDailyCount > 1])

\* Phase 0: [...this.services].filter(s => s.minDailyCount > 0).sort(...)
eligibleServices ==
    FilterSeq(dailyServices, [k \in DOMAIN dailyServices |->
                                 dailyServices[k].minDailyCount > 0])

\* Phase 0: does this iteration of the constraint loop search for a specialist?
Phase0Searches(constraint) ==
    /\ getDayOfWeek(day) \in constraint.allowedDays
    /\ targetSpecialty(constraint) # ""
    /\ ~alreadyAssigned(targetSpecialty(constraint))

\* Phase 0: the search made for one service
Phase0Search(service, specialty) ==
    findBestCandidate(service, day, assignedTodayIds, dayAssignmentsMap, staffStats,
                      Options(FALSE, Undef, Undef, specialty))

\* Phase 0: one iteration of for (const constraint of unitConstraints)
Phase0Step ==
    /\ pc = "phase0"
    /\ cIdx <= Len(config.unitConstraints)
    /\ LET constraint == config.unitConstraints[cIdx]
           specialty == targetSpecialty(constraint)
           Found(service) == Phase0Search(service, specialty)
           hit == FirstWithCandidate([k \in DOMAIN eligibleServices |->
                                         Found(eligibleServices[k])])
       IN  IF Phase0Searches(constraint) /\ hit # 0
           THEN \E candidate \in Found(eligibleServices[hit]) :
                    assignToSlot(candidate, eligibleServices[hit], 0)
           ELSE NoAssignment
    /\ cIdx' = cIdx + 1
    /\ UNCHANGED <<inputVars, pc, engineVars, logs, generateVars, unfilledSlots,
                   daysToProcess, day, sIdx, pos, currentServiceCount,
                   currentTotalStaff, protectionCounter>>

\* Phase 1: the search made for one service
Phase1Search(service) ==
    findBestCandidate(service, day, assignedTodayIds, dayAssignmentsMap, staffStats,
                      Options(FALSE, 1, Undef, ""))

\* Phase1Skips that passes over no service
Phase1Skips_Never(service) == FALSE

\* Phase 1: is the service passed over without a search?
Phase1Skips(service) ==
    \/ service.minDailyCount <= 0
    \/ ServiceCount(currentDayAssignments, service.id) >= service.minDailyCount

\* Phase 2: the loop variables on entering the service at index k of dailyServices
EnterService(k, assignments) ==
    /\ sIdx' = k
    /\ IF k <= Len(dailyServices)
       THEN /\ pos' = ServiceCount(assignments, dailyServices[k].id)
            /\ currentServiceCount' = ServiceCount(assignments, dailyServices[k].id)
       ELSE /\ pos' = 0
            /\ currentServiceCount' = 0

\* Phase 1 (the constraint loop of Phase 0 is over): at most one senior is
\* placed, into the first service of a random shuffle that is below its
\* minimum and for which a senior is found
Phase1 ==
    /\ pc = "phase0"
    /\ cIdx > Len(config.unitConstraints)
    /\ IF seniorAssignedToday
       THEN NoAssignment
       ELSE \E shuffle \in Permutations1(Len(services)) :
               LET shuffledServicesForSenior == [k \in DOMAIN services |-> services[shuffle[k]]]
                   Found(service) == IF Phase1Skips(service) THEN {} ELSE Phase1Search(service)
                   hit == FirstWithCandidate([k \in DOMAIN services |->
                                     Found(shuffledServicesForSenior[k])])
               IN  IF hit # 0
                   THEN \E seniorCandidate \in Found(shuffledServicesForSenior[hit]) :
                            assignToSlot(seniorCandidate, shuffledServicesForSenior[hit], 1)
                   ELSE NoAssignment
    /\ EnterService(1, dayAssignmentsMap'[day])
    /\ pc' = "phase2"
    /\ UNCHANGED <<inputVars, engineVars, logs, generateVars, unfilledSlots,
                   daysToProcess, day, cIdx, currentTotalStaff, protectionCounter>>

\* excludeRole: seniorAssignedToday ? 1 : undefined
excludeRole == IF seniorAssignedToday THEN 1 ELSE Undef

\* Phases 2 and 3: the normal try
NormalSearch(service) ==
    findBestCandidate(service, day, assignedTodayIds, dayAssignmentsMap, staffStats,
                      Options(FALSE, Undef, excludeRole, ""))

\* Phases 2 and 3: the desperate try
DesperateSearch(service) ==
    findBestCandidate(service, day, assignedTodayIds, dayAssignmentsMap, staffStats,
                      Options(TRUE, Undef, excludeRole, ""))

\* NormalThenDesperate that never excludes the seniors
NormalThenDesperate_AnyRole(service) ==
    LET Search(desperate) ==
            findBestCandidate(service, day, assignedTodayIds, dayAssignmentsMap,
                              staffStats, Options(desperate, Undef, Undef, ""))
    IN  IF Search(FALSE) # {} THEN Search(FALSE) ELSE Search(TRUE)

\* Phases 2 and 3: the normal try, and the desperate try when it finds no one
NormalThenDesperate(service) ==
    IF NormalSearch(service) # {} THEN NormalSearch(service) ELSE DesperateSearch(service)

\* the EMPTY placeholder pushed for a position nobody can take
emptyAssignment(service) ==
    [serviceId |-> service.id, staffId |-> EMPTY, role |-> 0, unit |-> "-"]

\* Phase2Search that goes to the desperate try at once
Phase2Search_DesperateOnly(service) == DesperateSearch(service)

\* Phase2Search without the desperate try
Phase2Search_NoDesperate(service) == NormalSearch(service)

\* Phase 2: the normal try, and the desperate try when it finds no one and
\* the service is below its minimum
Phase2Search(service) ==
    IF NormalSearch(service) = {} /\ currentServiceCount < service.minDailyCount
    THEN DesperateSearch(service)
    ELSE NormalSearch(service)

\* Phase2Fill that pushes the placeholder without counting it
Phase2Fill_UncountedSentinel ==
    /\ pc = "phase2"
    /\ sIdx <= Len(dailyServices)
    /\ pos < dailyServices[sIdx].minDailyCount
    /\ LET service == dailyServices[sIdx]
           found == Phase2Search(service)
       IN  IF found # {}
           THEN /\ \E bestCandidate \in found : assignToSlot(bestCandidate, service, 2)
                /\ currentServiceCount' = currentServiceCount + 1
                /\ UNCHANGED unfilledSlots
           ELSE /\ IF ServiceCount(currentDayAssignments, service.id) < service.minDailyCount
                   THEN /\ dayAssignmentsMap' =
                              [dayAssignmentsMap EXCEPT ![day] =
                                  Append(@, emptyAssignment(service))]
                        /\ phaseOf' = [phaseOf EXCEPT ![day] = Append(@, 2)]
                        /\ UNCHANGED unfilledSlots
                   ELSE UNCHANGED <<unfilledSlots, dayAssignmentsMap, phaseOf>>
                /\ UNCHANGED <<assignedTodayIds, staffStats, seniorAssignedToday,
                               currentServiceCount>>
    /\ pos' = pos + 1
    /\ UNCHANGED <<inputVars, pc, engineVars, logs, generateVars, daysToProcess, day,
                   cIdx, sIdx, currentTotalStaff, protectionCounter>>

\* Phase 2: one iteration of for (let i = currentServiceCount; i < min; i++)
Phase2Fill ==
    /\ pc = "phase2"
    /\ sIdx <= Len(dailyServices)
    /\ pos < dailyServices[sIdx].minDailyCount
    /\ LET service == dailyServices[sIdx]
           found == Phase2Search(service)
       IN  IF found # {}
           THEN /\ \E bestCandidate \in found : assignToSlot(bestCandidate, service, 2)
                /\ currentServiceCount' = currentServiceCount + 1
                /\ UNCHANGED unfilledSlots
           ELSE /\ IF ServiceCount(currentDayAssignments, service.id) < service.minDailyCount
                   THEN /\ unfilledSlots' = unfilledSlots + 1
                        /\ dayAssignmentsMap' =
                              [dayAssignmentsMap EXCEPT ![day] =
                                  Append(@, emptyAssignment(service))]
                        /\ phaseOf' = [phaseOf EXCEPT ![day] = Append(@, 2)]
                   ELSE UNCHANGED <<unfilledSlots, dayAssignmentsMap, phaseOf>>
                /\ UNCHANGED <<assignedTodayIds, staffStats, seniorAssignedToday,
                               currentServiceCount>>
    /\ pos' = pos + 1
    /\ UNCHANGED <<inputVars, pc, engineVars, logs, generateVars, daysToProcess, day,
                   cIdx, sIdx, currentTotalStaff, protectionCounter>>

\* Phase 2: the inner loop of a service is over, the next service is entered
Phase2NextService ==
    /\ pc = "phase2"
    /\ sIdx <= Len(dailyServices)
    /\ ~(pos < dailyServices[sIdx].minDailyCount)
    /\ EnterService(sIdx + 1, currentDayAssignments)
    /\ UNCHANGED <<inputVars, pc, engineVars, logs, generateVars, attemptVars, day,
                   assignedTodayIds, seniorAssignedToday, cIdx, currentTotalStaff,
                   protectionCounter>>

\* currentDayAssignments.filter(a => a.staffId !== 'EMPTY').length
NonEmptyCount(assignments) ==
    Cardinality({k \in DOMAIN assignments : assignments[k].staffId # EMPTY})

\* Phase 3 is entered (the service loop of Phase 2 is over)
Phase3Start ==
    /\ pc = "phase2"
    /\ sIdx > Len(dailyServices)
    /\ currentTotalStaff' = NonEmptyCount(currentDayAssignments)
    /\ protectionCounter' = 0
    /\ pc' = "phase3"
    /\ UNCHANGED <<inputVars, engineVars, logs, generateVars, attemptVars, day,
                   assignedTodayIds, seniorAssignedToday, cIdx, sIdx, pos,
                   currentServiceCount>>

\* Phase 3: does the while loop run another iteration?
Phase3Continues ==
    /\ config.dailyTotalTarget > 0
    /\ currentTotalStaff < config.dailyTotalTarget
    /\ protectionCounter < ProtectionLimit

\* flexibleServices without the test against the maximum
flexibleServices_All ==
    LET order == StableDescOrder([k \in DOMAIN services |->
                                     getPotentialCandidatesCount(services[k])])
    IN  [k \in DOMAIN services |-> services[order[k]]]

\* Phase 3: the services below their maximum, largest candidate pool first
flexibleServices ==
    LET flexible == FilterSeq(services, [k \in DOMAIN services |->
                       ServiceCount(currentDayAssignments, services[k].id)
                           < services[k].maxDailyCount])
        order == StableDescOrder([k \in DOMAIN flexible |->
                                     getPotentialCandidatesCount(flexible[k])])
    IN  [k \in DOMAIN flexible |-> flexible[order[k]]]

\* Phase 3: one iteration of the while loop; it places one member of staff
\* or leaves the loop (break), which ends the day
Phase3Step ==
    /\ pc = "phase3"
    /\ Phase3Continues
    /\ LET hit == FirstWithCandidate([k \in DOMAIN flexibleServices |->
                                     NormalThenDesperate(flexibleServices[k])])
       IN  IF hit # 0
           THEN /\ \E extraCandidate \in NormalThenDesperate(flexibleServices[hit]) :
                      assignToSlot(extraCandidate, flexibleServices[hit], 3)
                /\ currentTotalStaff' = currentTotalStaff + 1
                /\ protectionCounter' = protectionCounter + 1
                /\ UNCHANGED <<pc, day, cIdx, sIdx, pos, currentServiceCount>>
           ELSE /\ IdleDay
                /\ pc' = "dayloop"
                /\ UNCHANGED <<dayAssignmentsMap, staffStats, phaseOf>>
    /\ UNCHANGED <<inputVars, engineVars, logs, generateVars, unfilledSlots, daysToProcess>>

\* Phase 3 is over (or was not entered): the iteration of the day loop ends
DayEnd ==
    /\ pc = "phase3"
    /\ ~Phase3Continues
    /\ IdleDay
    /\ pc' = "dayloop"
    /\ UNCHANGED <<inputVars, engineVars, logs, generateVars, attemptVars>>

(***************************************************************************)
(* The inputs the model is run on                                          *)
(***************************************************************************)
NoRoom == << >>

RoomA == <<"A">>

Blank == <<" ">>

\* a senior transplant nurse and an experienced nurse sharing room A, an
\* experienced nurse and a junior wound-care nurse of another unit without
\* room, a deactivated nurse of room A, and a junior nurse without room
StaffList ==
    << Person("n1", 1, GenelCerrahi, "transplant", RoomA, 2, 1, {}, {}, TRUE),
       Person("n2", 2, GenelCerrahi, "none", RoomA, 2, 1, {2}, {}, TRUE),
       Person("n3", 2, KBB, "none", NoRoom, 2, 0, {}, {1}, TRUE),
       Person("n4", 3, KBB, "wound", Blank, 1, 1, {}, {}, TRUE),
       Person("n5", 2, GenelCerrahi, "none", RoomA, 2, 1, {}, {}, FALSE),
       Person("n6", 3, GenelCerrahi, "none", NoRoom, 2, 1, {3}, {}, TRUE) >>

ServiceList ==
    << ServiceDef("s1", 1, 2, {GenelCerrahi}),
       ServiceDef("s2", 1, 1, {}) >>

\* transplant staff on Saturdays only, wound care at the weekend
WeekendConstraints ==
    << Constraint(Transplantasyon, {6}), Constraint(YaraBakim, {6, 0}) >>

\* the KBB unit on working days, transplant staff on Fridays only, wound care
\* on Saturdays only
WeekdayConstraints ==
    << Constraint(KBB, {1, 2, 3, 4, 5}), Constraint(Transplantasyon, {5}),
       Constraint(YaraBakim, {6}) >>

ConstraintLists == { << >>, WeekendConstraints, WeekdayConstraints }

\* the daily total targets tried: no target, and one above the sum of the minimums
Targets == {0, 3}

Config(fd, mr, ro, pe, uc, tt) ==
    [firstDow |-> fd, monthLength |-> MaxDays, maxRetries |-> mr,
     randomizeOrder |-> ro, preventEveryOtherDay |-> pe,
     unitConstraints |-> uc, dailyTotalTarget |-> tt]

\* every weekday for day 1, every constraint list, with and without a random
\* day order and a daily target, the every-other-day penalty on; zero or one
\* attempt
Inputs ==
    { [staff |-> StaffList, services |-> ServiceList,
       config |-> Config(fd, mr, ro, pe, uc, tt)] :
         fd \in 0..6, mr \in 0..1, ro \in BOOLEAN, pe \in {TRUE},
         uc \in ConstraintLists, tt \in Targets }

\* up to MaxRetries attempts on a month that starts on a Tuesday
RetryInputs ==
    { [staff |-> StaffList, services |-> ServiceList,
       config |-> Config(2, mr, TRUE, TRUE, WeekdayConstraints, 3)] :
         mr \in 0..MaxRetries }

\* the staff list with its juniors deactivated
NoJuniorStaffList ==
    [k \in DOMAIN StaffList |->
        IF StaffList[k].role = 3 THEN [StaffList[k] EXCEPT !.isActive = FALSE]
        ELSE StaffList[k]]

\* the staff list with and without active juniors, under the weekend
\* constraints
TierInputs ==
    { [staff |-> sl, services |-> ServiceList,
       config |-> Config(fd, mr, ro, TRUE, uc, tt)] :
         sl \in {StaffList, NoJuniorStaffList}, fd \in 0..6, mr \in 0..1,
         ro \in BOOLEAN, uc \in {WeekendConstraints}, tt \in Targets }

\* transplant staff on Thursdays only, which makes Thursday the first day
\* processed
ThursdayConstraints == << Constraint(Transplantasyon, {4}) >>

\* months that hold a Thursday and the Saturday after it, with the Thursday
\* processed after the weekend (no constraint) or before it
ThursdayInputs ==
    { [staff |-> StaffList, services |-> ServiceList,
       config |-> Config(fd, mr, ro, TRUE, uc, tt)] :
         fd \in {3, 4}, mr \in 0..1, ro \in BOOLEAN,
         uc \in {<< >>, ThursdayConstraints}, tt \in Targets }

\* the scenario of four staff and one slot type: the tiers of the four
ScenarioRoles ==
    { <<1, 2, 2, 3>>, <<1, 1, 2, 3>>, <<2, 2, 3, 3>>,
      <<1, 1, 1, 1>>, <<2, 2, 2, 2>>, <<3, 3, 3, 3>> }

\* four staff of one unit without room, days off or requests, quota 3
ScenarioStaff(roles, wlimit) ==
    << Person("a1", roles[1], GenelCerrahi, "none", NoRoom, 3, wlimit, {}, {}, TRUE),
       Person("a2", roles[2], GenelCerrahi, "none", NoRoom, 3, wlimit, {}, {}, TRUE),
       Person("a3", roles[3], GenelCerrahi, "none", NoRoom, 3, wlimit, {}, {}, TRUE),
       Person("a4", roles[4], GenelCerrahi, "none", NoRoom, 3, wlimit, {}, {}, TRUE) >>

\* one slot type of that unit that takes exactly one person a day
ScenarioServices == << ServiceDef("s1", 1, 1, {GenelCerrahi}) >>

\* no unit constraint, or the unit of the four on working days only
ScenarioConstraints == { << >>, << Constraint(GenelCerrahi, {1, 2, 3, 4, 5}) >> }

\* a month of three days that starts on any weekday; weekend limits 0, 1, 3
ScenarioInputs ==
    { [staff |-> ScenarioStaff(roles, wl), services |-> ScenarioServices,
       config |-> [firstDow |-> fd, monthLength |-> 3, maxRetries |-> mr,
                   randomizeOrder |-> ro, preventEveryOtherDay |-> TRUE,
                   unitConstraints |-> uc, dailyTotalTarget |-> tt]] :
         roles \in ScenarioRoles, wl \in {0, 1, 3}, fd \in 0..6, mr \in 0..1,
         ro \in BOOLEAN, uc \in ScenarioConstraints, tt \in {0, 2} }

\* a unit constraint on Genel Cerrahi together with a constraint on the
\* transplant specialty: the two overlap on Saturday only, or the specialty
\* days lie within the unit days, or the unit days within the specialty days
BothInputs ==
    { [staff |-> StaffList, services |-> ServiceList,
       config |-> Config(fd, mr, ro, TRUE, uc, tt)] :
         fd \in 0..6, mr \in 0..1, ro \in BOOLEAN,
         uc \in { << Constraint(GenelCerrahi, {5, 6}), Constraint(Transplantasyon, {6, 0}) >>,
                  << Constraint(Transplantasyon, {5}), Constraint(GenelCerrahi, {1, 2, 3, 4, 5}) >>,
                  << Constraint(GenelCerrahi, {0}), Constraint(Transplantasyon, {0, 1, 6}) >> },
         tt \in Targets }

\* the staff list with a second senior, of no specialty and without room;
\* transplant staff on Saturdays only and wound care on Sundays only; no
\* daily target, one equal to the sum of the maximums, and one above it
SeniorInputs ==
    { [staff |-> [StaffList EXCEPT ![2] = Person("n2", 1, GenelCerrahi, "none", NoRoom,
                                                 2, 1, {}, {}, TRUE)],
       services |-> ServiceList,
       config |-> Config(fd, mr, ro, TRUE,
                         << Constraint(Transplantasyon, {6}), Constraint(YaraBakim, {0}) >>,
                         tt)] :
         fd \in 0..6, mr \in 0..1, ro \in BOOLEAN, tt \in {0, 3, 4} }

\* room identifiers as a caller can type them: none, a blank, "A", and "A"
\* with a space after or before it
RoomIds == {NoRoom, Blank, RoomA, <<"A", " ">>, <<" ", "A">>}

\* the staff list with every combination of these rooms for its first three
\* members, on a month that starts on a Friday under the weekend constraints
RoomInputs ==
    { [staff |-> [StaffList EXCEPT ![1].room = r1, ![2].room = r2, ![3].room = r3],
       services |-> ServiceList,
       config |-> Config(5, mr, FALSE, TRUE, WeekendConstraints, 3)] :
         r1 \in RoomIds, r2 \in RoomIds, r3 \in RoomIds, mr \in 0..1 }

\* the staff list with its wound-care nurse a senior, so that two seniors
\* carry a specialty, under the weekend constraints (both specialties are
\* allowed on Saturdays)
SpecialistInputs ==
    { [staff |-> [StaffList EXCEPT ![4].role = 1],
       services |-> ServiceList,
       config |-> Config(fd, mr, ro, TRUE, WeekendConstraints, tt)] :
         fd \in 0..6, mr \in 0..1, ro \in BOOLEAN, tt \in Targets }

\* two seniors of no specialty, an experienced nurse of another unit who
\* takes no weekend shift and a junior who is off on day 3, all without
\* room, under the weekend constraints; day 1 a Monday, Thursday or Friday
TwoSeniorInputs ==
    { [staff |-> << Person("n1", 1, GenelCerrahi, "none", NoRoom, 2, 1, {}, {}, TRUE),
                    Person("n2", 1, GenelCerrahi, "none", NoRoom, 2, 1, {}, {}, TRUE),
                    Person("n3", 2, KBB, "none", NoRoom, 2, 0, {}, {}, TRUE),
                    Person("n6", 3, GenelCerrahi, "none", NoRoom, 2, 1, {3}, {}, TRUE) >>,
       services |-> ServiceList,
       config |-> Config(fd, mr, ro, TRUE, uc, tt)] :
         fd \in {1, 4, 5}, mr \in 0..1, ro \in BOOLEAN,
         uc \in {WeekendConstraints}, tt \in Targets }

(***************************************************************************)
(* The second version of the class (scheduler.ts lines 577-1071): staff    *)
(* carry a group, services a preferred group and a list of allowed roles;  *)
(* a day has Phase 1 and Phase 2 only, and Phase 2 tries a third, deep      *)
(* desperate, search.  Its constructor, generate, day ordering and result   *)
(* are those of the first version.                                         *)
(***************************************************************************)
\* 'Farketmez': the preferred group that means any group
Farketmez == "Farketmez"

\* CandidateOptions of the second version
OptionsV2(desperate, deepDesperate, excludedRole, restrictSpecialty) ==
    [desperate |-> desperate, deepDesperate |-> deepDesperate, restrictRole |-> Undef,
     excludeRole |-> excludedRole, restrictSpecialty |-> restrictSpecialty]

\* 7. Group constraint (strict unless deep desperate)
GroupFree(person, service, options) ==
    (service.preferredGroup # "" /\ service.preferredGroup # Farketmez
        /\ ~options.deepDesperate)
            => person.group = service.preferredGroup

\* the predicate of this.staff.filter(person => ...) in the second version
PassesFiltersV2(person, service, d, assignedToday, assignmentsMap, stats, options) ==
    /\ options.restrictRole # Undef => person.role = options.restrictRole
    /\ options.excludeRole # Undef => person.role # options.excludeRole
    /\ options.restrictSpecialty # "" => person.specialty = options.restrictSpecialty
    /\ Available(person, d, assignedToday)
    /\ RestFree(person, d, assignmentsMap)
    /\ UnitEligible(person, service, d)
    /\ RoommateFree(person, d, assignedToday, assignmentsMap)
    /\ QuotaFree(person, d, stats)
    /\ ThursdayFree(person, d, assignmentsMap)
    /\ GroupFree(person, service, options)

\* the score of the second version without the Math.random() * 500 term
BaseScoreV2(person, service, d, assignmentsMap, stats, options) ==
    LET specConstraint == FindConstraint(SpecName(person.specialty))
    IN    (IF options.restrictSpecialty # "" /\ person.specialty = options.restrictSpecialty
           THEN 200000 ELSE 0)
        + (IF /\ person.specialty # "" /\ person.specialty # "none"
              /\ specConstraint # Null
              /\ getDayOfWeek(d) \in specConstraint.allowedDays
           THEN 100000 ELSE 0)
        + (IF d \in person.requestedDays THEN 20000 ELSE 0)
        + (person.quotaService - stats[person.id].service) * 1000
        - (IF isWeekend(d) THEN stats[person.id].weekend * 2000 ELSE 0)
        - (IF config.preventEveryOtherDay /\ hasShiftOnDay(assignmentsMap, d - 2, person.id)
           THEN 1000 ELSE 0)
        + (IF /\ service.preferredGroup # "" /\ service.preferredGroup # Farketmez
              /\ person.group = service.preferredGroup
           THEN 500 ELSE 0)

\* the staff findBestCandidate of the second version can return in the
\* current state; the empty set stands for null
findBestCandidateV2(service, options) ==
    LET cands == {q \in Range(staff) :
                     PassesFiltersV2(q, service, day, assignedTodayIds, dayAssignmentsMap,
                                     staffStats, options)}
    IN  {q \in cands : \A r \in cands :
            BaseScoreV2(q, service, day, dayAssignmentsMap, staffStats, options) + JitterBound
                > BaseScoreV2(r, service, day, dayAssignmentsMap, staffStats, options)}

\* for (const day of daysToProcess) in the second version
DayStartV2 ==
    /\ pc = "dayloop"
    /\ daysToProcess # << >>
    /\ day' = Head(daysToProcess)
    /\ daysToProcess' = Tail(daysToProcess)
    /\ assignedTodayIds' = {}
    /\ seniorAssignedToday' = FALSE
    /\ pc' = "v2phase1"
    /\ UNCHANGED <<inputVars, engineVars, logs, generateVars, dayAssignmentsMap,
                   staffStats, unfilledSlots, phaseOf, cIdx, sIdx, pos,
                   currentServiceCount, currentTotalStaff, protectionCounter>>

\* the push and the statistics update the second version writes out in
\* Phase 1 and in Phase 2
assignV2(candidate, service, phase) ==
    /\ dayAssignmentsMap' =
          [dayAssignmentsMap EXCEPT ![day] =
              Append(@, [serviceId |-> service.id, staffId |-> candidate.id,
                         role |-> candidate.role, group |-> candidate.group,
                         unit |-> candidate.unit])]
    /\ assignedTodayIds' = assignedTodayIds \cup {candidate.id}
    /\ staffStats' =
          [staffStats EXCEPT ![candidate.id] =
              [@ EXCEPT !.total = @ + 1,
                        !.service = @ + 1,
                        !.weekend = IF isWeekend(day) THEN @ + 1 ELSE @,
                        !.saturday = IF getDayOfWeek(day) = 6 THEN @ + 1 ELSE @,
                        !.sunday = IF getDayOfWeek(day) = 0 THEN @ + 1 ELSE @]]
    /\ phaseOf' = [phaseOf EXCEPT ![day] = Append(@, phase)]

\* Phase 1 of the second version: one senior into the first service of a
\* random shuffle that allows role 1, has a minimum, and has a candidate
Phase1V2 ==
    /\ pc = "v2phase1"
    /\ \E shuffle \in Permutations1(Len(services)) :
          LET shuffled == [k \in DOMAIN services |-> services[shuffle[k]]]
              Found(service) ==
                  IF 1 \notin service.allowedRoles \/ service.minDailyCount <= 0
                  THEN {}
                  ELSE findBestCandidateV2(service,
                           [OptionsV2(FALSE, FALSE, Undef, "") EXCEPT !.restrictRole = 1])
              hit == FirstWithCandidate([k \in DOMAIN services |-> Found(shuffled[k])])
          IN  IF hit # 0
              THEN /\ \E seniorCandidate \in Found(shuffled[hit]) :
                         assignV2(seniorCandidate, shuffled[hit], 1)
                   /\ seniorAssignedToday' = TRUE
              ELSE NoAssignment
    /\ EnterService(1, dayAssignmentsMap'[day])
    /\ pc' = "v2phase2"
    /\ UNCHANGED <<inputVars, engineVars, logs, generateVars, unfilledSlots,
                   daysToProcess, day, cIdx, currentTotalStaff, protectionCounter>>

\* Phase 2 of the second version: the specialty a position is locked to,
\* "" when it is locked to none
restrictedSpecialtyForSlot(service) ==
    LET locking ==
            {k \in DOMAIN config.unitConstraints :
                /\ getDayOfWeek(day) \in config.unitConstraints[k].allowedDays
                /\ targetSpecialty(config.unitConstraints[k]) # ""
                /\ ~\E j \in DOMAIN currentDayAssignments :
                      /\ currentDayAssignments[j].serviceId = service.id
                      /\ \E q \in Range(staff) :
                            /\ q.id = currentDayAssignments[j].staffId
                            /\ q.specialty = targetSpecialty(config.unitConstraints[k])}
    IN  IF locking = {} THEN ""
        ELSE targetSpecialty(config.unitConstraints[Min(locking)])

\* LadderSearch that tries the deep desperate search first
LadderSearch_DeepFirst(service) ==
    findBestCandidateV2(service,
        OptionsV2(TRUE, TRUE, excludeRole, restrictedSpecialtyForSlot(service)))

\* Phase 2 of the second version: 1. normal try, 2. desperate try, 3. deep
\* desperation
LadderSearch(service) ==
    LET try(desperate, deepDesperate) ==
            findBestCandidateV2(service,
                OptionsV2(desperate, deepDesperate, excludeRole,
                          restrictedSpecialtyForSlot(service)))
        below == currentServiceCount < service.minDailyCount
    IN  IF try(FALSE, FALSE) # {} THEN try(FALSE, FALSE)
        ELSE IF ~below THEN {}
        ELSE IF try(TRUE, FALSE) # {} THEN try(TRUE, FALSE)
        ELSE try(TRUE, TRUE)

\* Phase 2 of the second version: one iteration of the inner loop
Phase2FillV2 ==
    /\ pc = "v2phase2"
    /\ sIdx <= Len(dailyServices)
    /\ pos < dailyServices[sIdx].minDailyCount
    /\ LET service == dailyServices[sIdx]
           found == LadderSearch(service)
       IN  IF found # {}
           THEN /\ \E bestCandidate \in found :
                      /\ assignV2(bestCandidate, service, 2)
                      /\ seniorAssignedToday' =
                            (seniorAssignedToday \/ bestCandidate.role = 1)
                /\ currentServiceCount' = currentServiceCount + 1
                /\ UNCHANGED unfilledSlots
           ELSE /\ IF ServiceCount(currentDayAssignments, service.id) < service.minDailyCount
                   THEN /\ unfilledSlots' = unfilledSlots + 1
                        /\ dayAssignmentsMap' =
                              [dayAssignmentsMap EXCEPT ![day] =
                                  Append(@, [serviceId |-> service.id, staffId |-> EMPTY,
                                             role |-> 0, group |-> "Genel", unit |-> "-"])]
                        /\ phaseOf' = [phaseOf EXCEPT ![day] = Append(@, 2)]
                   ELSE UNCHANGED <<unfilledSlots, dayAssignmentsMap, phaseOf>>
                /\ UNCHANGED <<assignedTodayIds, staffStats, seniorAssignedToday,
                               currentServiceCount>>
    /\ pos' = pos + 1
    /\ UNCHANGED <<inputVars, pc, engineVars, logs, generateVars, daysToProcess, day,
                   cIdx, sIdx, currentTotalStaff, protectionCounter>>

\* Phase 2 of the second version: the next service is entered
Phase2NextServiceV2 ==
    /\ pc = "v2phase2"
    /\ sIdx <= Len(dailyServices)
    /\ ~(pos < dailyServices[sIdx].minDailyCount)
    /\ EnterService(sIdx + 1, currentDayAssignments)
    /\ UNCHANGED <<inputVars, pc, engineVars, logs, generateVars, attemptVars, day,
                   assignedTodayIds, seniorAssignedToday, cIdx, currentTotalStaff,
                   protectionCounter>>

\* the service loop of Phase 2 is over: the day ends
DayEndV2 ==
    /\ pc = "v2phase2"
    /\ sIdx > Len(dailyServices)
    /\ IdleDay
    /\ pc' = "dayloop"
    /\ UNCHANGED <<inputVars, engineVars, logs, generateVars, attemptVars>>

\* two staff of group A and three of group B, one of them a junior; a
\* service that prefers group A and takes two a day, and one open to any
\* group; no constraint, or transplant staff on Saturdays only
GroupInputs ==
    { [staff |-> << Person("g1", 1, GenelCerrahi, "transplant", NoRoom, 2, 1, {}, {}, TRUE)
                        @@ [group |-> "A"],
                    Person("g2", 2, GenelCerrahi, "none", NoRoom, 2, 1, {}, {}, TRUE)
                        @@ [group |-> "A"],
                    Person("g3", 1, GenelCerrahi, "none", NoRoom, 1, 1, {2}, {}, TRUE)
                        @@ [group |-> "B"],
                    Person("g4", 2, KBB, "none", NoRoom, 2, 1, {}, {}, TRUE)
                        @@ [group |-> "B"],
                    Person("g5", 3, KBB, "none", NoRoom, 2, 0, {}, {}, TRUE)
                        @@ [group |-> "B"] >>,
       services |-> << ServiceDef("s1", 2, 2, {GenelCerrahi})
                           @@ [preferredGroup |-> "A", allowedRoles |-> {1, 2, 3}],
                       ServiceDef("s2", 1, 1, {})
                           @@ [preferredGroup |-> pg, allowedRoles |-> {2, 3}] >>,
       config |-> Config(fd, mr, ro, TRUE, uc, 0)] :
         pg \in {Farketmez, ""}, fd \in {1, 3, 5, 6}, mr \in 0..1,
         ro \in BOOLEAN,
         uc \in { << >>, << Constraint(Transplantasyon, {6}) >> } }

(***************************************************************************)
(* Specification                                                           *)
(***************************************************************************)
InitWith(inputs) ==
    /\ \E input \in inputs :
          /\ inStaff = input.staff
          /\ inServices = input.services
          /\ config = input.config
    /\ pc = "new"
    /\ staff = << >>
    /\ services = << >>
    /\ daysInMonth = 0
    /\ roommatesMap = << >>
    /\ logs = << >>
    /\ attempt = 0
    /\ bestResult = Null
    /\ minUnfilled = 0
    /\ bestDeviation = 0
    /\ history = << >>
    /\ dayAssignmentsMap = << >>
    /\ staffStats = << >>
    /\ unfilledSlots = 0
    /\ daysToProcess = << >>
    /\ day = 0
    /\ assignedTodayIds = {}
    /\ seniorAssignedToday = FALSE
    /\ cIdx = 0
    /\ sIdx = 0
    /\ pos = 0
    /\ currentServiceCount = 0
    /\ currentTotalStaff = 0
    /\ protectionCounter = 0
    /\ phaseOf = << >>

Next ==
    \/ Construct
    \/ GenerateStart
    \/ RunSimulationStart
    \/ DayStart
    \/ Phase0Step
    \/ Phase1
    \/ Phase2Fill
    \/ Phase2NextService
    \/ Phase3Start
    \/ Phase3Step
    \/ DayEnd
    \/ SimulationEnd
    \/ GenerateReturn
    \/ GenerateThrow

Init == InitWith(Inputs)

Spec == Init /\ [][Next]_vars

InitRetry == InitWith(RetryInputs)

SpecRetry == InitRetry /\ [][Next]_vars

InitTiers == InitWith(TierInputs)

SpecTiers == InitTiers /\ [][Next]_vars

InitThursday == InitWith(ThursdayInputs)

SpecThursday == InitThursday /\ [][Next]_vars

InitScenario == InitWith(ScenarioInputs)

SpecScenario == InitScenario /\ [][Next]_vars

SpecBoth == InitWith(BothInputs) /\ [][Next]_vars

SpecSenior == InitWith(SeniorInputs) /\ [][Next]_vars

SpecRooms == InitWith(RoomInputs) /\ [][Next]_vars

SpecSpecialists == InitWith(SpecialistInputs) /\ [][Next]_vars

SpecTwoSeniors == InitWith(TwoSeniorInputs) /\ [][Next]_vars

NextV2 ==
    \/ Construct
    \/ GenerateStart
    \/ RunSimulationStart
    \/ DayStartV2
    \/ Phase1V2
    \/ Phase2FillV2
    \/ Phase2NextServiceV2
    \/ DayEndV2
    \/ SimulationEnd
    \/ GenerateReturn
    \/ GenerateThrow

SpecGroups == InitWith(GroupInputs) /\ [][NextV2]_vars

(***************************************************************************)
(* Properties                                                              *)
(***************************************************************************)
StaffIds == {staff[k].id : k \in DOMAIN staff}

Days == 1..daysInMonth

\* the day -> assignments map of the result generate keeps
BestMap == [d \in DOMAIN bestResult.schedule |-> bestResult.schedule[d].assignments]

\* the day -> assignments maps a claim about schedules speaks of: the one of
\* the running attempt and the one of the retained result
Schedules ==
    (IF dayAssignmentsMap = << >> THEN {} ELSE {dayAssignmentsMap})
        \cup (IF bestResult = Null THEN {} ELSE {BestMap})

\* the day loop has finished this day in the running attempt
DayDone(d) ==
    /\ dayAssignmentsMap # << >>
    /\ d \in Days
    /\ d # day
    /\ d \notin Range(daysToProcess)

Sentinels(assignments, serviceId) ==
    {k \in DOMAIN assignments :
        assignments[k].serviceId = serviceId /\ assignments[k].staffId = EMPTY}

Placed(assignments, serviceId) ==
    {k \in DOMAIN assignments :
        assignments[k].serviceId = serviceId /\ assignments[k].staffId # EMPTY}

\* C1: no member of staff is assigned on two consecutive days, in any state
\* of an attempt and in the retained result.
C1_NoConsecutiveDays ==
    \A m \in Schedules : \A id \in StaffIds : \A d \in 1..(daysInMonth - 1) :
        ~(hasShiftOnDay(m, d, id) /\ hasShiftOnDay(m, d + 1, id))

\* C1 witness: the returned schedule has someone on two days that are two
\* apart, with a position of the day in between left EMPTY.
C1_Witness ==
    /\ pc = "returned"
    /\ \E id \in StaffIds : \E d \in 1..(daysInMonth - 2) :
          /\ hasShiftOnDay(BestMap, d, id)
          /\ hasShiftOnDay(BestMap, d + 2, id)
          /\ hasShiftOnDay(BestMap, d + 1, EMPTY)

\* two members of staff share a non-blank room identifier
SameRoom(a, b) ==
    /\ a.id # b.id
    /\ a.room = b.room
    /\ Trim(a.room) # << >>

\* C2: staff sharing a room are never assigned on the same day nor on
\* adjacent days.
C2_RoommatesApart ==
    \A m \in Schedules : \A a, b \in Range(staff) :
        SameRoom(a, b) =>
            \A d \in Days :
                /\ ~(hasShiftOnDay(m, d, a.id) /\ hasShiftOnDay(m, d, b.id))
                /\ ~(hasShiftOnDay(m, d, a.id) /\ hasShiftOnDay(m, d + 1, b.id))

\* C2 witness: during a day one of two roommates is placed while the other,
\* not placed, passes every filter of a desperate search for some service
\* except the roommate filter.
C2_Witness ==
    /\ pc \in {"phase2", "phase3"}
    /\ \E a, b \in Range(staff) : \E service \in Range(services) :
          /\ SameRoom(a, b)
          /\ a.id \in assignedTodayIds
          /\ b.id \notin assignedTodayIds
          /\ day \notin b.offDays
          /\ RestFree(b, day, dayAssignmentsMap)
          /\ UnitEligible(b, service, day)
          /\ QuotaFree(b, day, staffStats)
          /\ ThursdayFree(b, day, dayAssignmentsMap)
          /\ ServiceCount(currentDayAssignments, service.id) < service.maxDailyCount

\* the statistics a claim about counts speaks of: those of the running
\* attempt and those of the retained result, as id -> [service, weekend]
StatsViews ==
    (IF staffStats = << >> THEN {}
     ELSE {[id \in StaffIds |-> [service |-> staffStats[id].service,
                                 weekend |-> staffStats[id].weekend]]})
    \cup
    (IF bestResult = Null THEN {}
     ELSE {[id \in StaffIds |->
              LET st == bestResult.stats[CHOOSE k \in DOMAIN bestResult.stats :
                                             bestResult.stats[k].staffId = id]
              IN  [service |-> st.serviceShifts, weekend |-> st.weekendShifts]]})

\* C3: the shift count never exceeds the monthly quota and the weekend count
\* never exceeds the weekend limit.
C3_QuotaCeilings ==
    \A v \in StatsViews : \A p \in Range(staff) :
        (p.quotaService >= 0 /\ p.weekendLimit >= 0) =>
            /\ v[p.id].service <= p.quotaService
            /\ v[p.id].weekend <= p.weekendLimit

\* C3 witness: on a weekend day a service has an open position and a member
\* of staff at the weekend limit, below the monthly quota, passes every
\* other filter of a desperate search for it, while another member of staff
\* has reached the monthly quota.
C3_Witness ==
    /\ pc \in {"phase2", "phase3"}
    /\ isWeekend(day)
    /\ \E p \in Range(staff) :
          /\ staffStats[p.id].service = p.quotaService
          /\ p.quotaService > 0
    /\ \E q \in Range(staff) : \E service \in Range(services) :
          /\ staffStats[q.id].weekend = q.weekendLimit
          /\ staffStats[q.id].service < q.quotaService
          /\ q.id \notin assignedTodayIds
          /\ day \notin q.offDays
          /\ RestFree(q, day, dayAssignmentsMap)
          /\ UnitEligible(q, service, day)
          /\ RoommateFree(q, day, assignedTodayIds, dayAssignmentsMap)
          /\ ThursdayFree(q, day, dayAssignmentsMap)
          /\ ServiceCount(currentDayAssignments, service.id) < service.maxDailyCount

\* C4 (as claimed): on every day the number of entries of a service with
\* minimum <= maximum is at most its maximum.
C4_MaxRespected ==
    \A m \in Schedules : \A d \in Days : \A service \in Range(services) :
        service.minDailyCount <= service.maxDailyCount =>
            ServiceCount(m[d], service.id) <= service.maxDailyCount

\* the sentinel count of every service in a finished day's list
SentinelsMatch(assignments) ==
    \A service \in Range(services) :
        Cardinality(Sentinels(assignments, service.id)) =
            Max({0, service.minDailyCount - Cardinality(Placed(assignments, service.id))})

\* C5: once a day is processed, each service has exactly
\* max(0, minimum - placed) EMPTY entries on it.
C5_SentinelCount ==
    \A d \in Days :
        /\ DayDone(d) => SentinelsMatch(dayAssignmentsMap[d])
        /\ bestResult # Null => SentinelsMatch(BestMap[d])

\* C5 witness: a processed day on which one service got an EMPTY entry and
\* another service holds more staff than its minimum.
C5_Witness ==
    \E d \in Days : \E a, b \in Range(services) :
        /\ DayDone(d)
        /\ Sentinels(dayAssignmentsMap[d], a.id) # {}
        /\ Cardinality(Placed(dayAssignmentsMap[d], b.id)) > b.minDailyCount

\* the unfilled counts of the attempts that were run
AttemptUnfilled == {history[k].result.unfilledSlots : k \in DOMAIN history}

\* C6: the result generate returns is the result of one of the attempts run
\* and no attempt had fewer unfilled slots.
C6_BestUnfilled ==
    pc = "returned" =>
        /\ \E k \in DOMAIN history : bestResult = history[k].result
        /\ \A k \in DOMAIN history :
              bestResult.unfilledSlots <= history[k].result.unfilledSlots

\* C6 witness: generate returns after a later attempt had fewer unfilled
\* slots than the first one.
C6_Witness ==
    /\ pc = "returned"
    /\ \E j, k \in DOMAIN history :
          /\ j < k
          /\ history[k].result.unfilledSlots < history[j].result.unfilledSlots

\* sum over the staff of |quota - achieved ordinary shifts| in a result
RECURSIVE QuotaDeviationFrom(_, _)
QuotaDeviationFrom(result, k) ==
    IF k > Len(staff) THEN 0
    ELSE LET st == result.stats[CHOOSE j \in DOMAIN result.stats :
                                    result.stats[j].staffId = staff[k].id]
         IN  Abs(staff[k].quotaService - st.serviceShifts)
                 + QuotaDeviationFrom(result, k + 1)

QuotaDeviation(result) == QuotaDeviationFrom(result, 1)

\* the attempts with the minimal unfilled count
MinimalAttempts ==
    {k \in DOMAIN history :
        history[k].result.unfilledSlots = Min(AttemptUnfilled)}

\* C7: the returned result has the minimal unfilled count and, among the
\* attempts with that count, a minimal quota deviation.
C7_BestDeviation ==
    pc = "returned" =>
        /\ bestResult.unfilledSlots = Min(AttemptUnfilled)
        /\ \A k \in MinimalAttempts :
              QuotaDeviation(bestResult) <= QuotaDeviation(history[k].result)

\* C7 witness: generate returns after two attempts with the minimal unfilled
\* count of which the later has the smaller deviation.
C7_Witness ==
    /\ pc = "returned"
    /\ \E j, k \in MinimalAttempts :
          /\ j < k
          /\ QuotaDeviation(history[k].result) < QuotaDeviation(history[j].result)

\* C8 (as claimed): a configuration with fewer than one retry is refused at
\* construction, so no engine is ever constructed from it.
C8_ErrorAtConstruction == config.maxRetries < 1 => pc \in {"new", "thrown"}

\* C8 (amended): with fewer than one retry the constructor accepts the
\* configuration, and generate throws after running no attempt.
C8_ErrorAtGenerate ==
    [][config.maxRetries < 1 =>
          /\ pc = "new" => pc' = "constructed"
          /\ pc = "constructed" => pc' = "retry"
          /\ pc = "retry" => (pc' = "thrown" /\ history' = << >>)]_vars

\* C8 witness: generate has thrown for a configuration with zero retries,
\* after the constructor accepted it.
C8_Witness ==
    /\ config.maxRetries < 1
    /\ pc = "thrown"
    /\ staff # << >>
    /\ history = << >>

\* the EMPTY entries of a result's schedule
ResultSentinels(result) ==
    {<<d, k>> \in (DOMAIN result.schedule) \X (1..(2 * Len(staff) + 4)) :
        /\ k \in DOMAIN result.schedule[d].assignments
        /\ result.schedule[d].assignments[k].staffId = EMPTY}

\* C9: with at least one retry configured generate never throws: at the
\* head of the retry loop either another attempt starts or generate returns,
\* every attempt run leaves a result behind, and the unfilled count of that
\* result is the number of its EMPTY entries.
C9_NeverFails ==
    config.maxRetries >= 1 =>
        /\ pc # "thrown"
        /\ pc = "retry" => ENABLED (RunSimulationStart \/ GenerateReturn)
        /\ (pc = "returned" \/ (pc = "retry" /\ attempt >= 1)) => bestResult # Null
        /\ bestResult # Null =>
              bestResult.unfilledSlots = Cardinality(ResultSentinels(bestResult))

\* C9 witness: generate has returned a result with EMPTY entries in it.
C9_Witness ==
    /\ config.maxRetries >= 1
    /\ pc = "returned"
    /\ bestResult.unfilledSlots > 0
    /\ ResultSentinels(bestResult) # {}

\* the staff carrying the specialty a constraint reserves
Carriers(constraint) ==
    {j \in DOMAIN staff : staff[j].specialty = targetSpecialty(constraint)}

\* a constraint that reserves a specialty and allows Saturdays only
SaturdayOnly(constraint) ==
    /\ targetSpecialty(constraint) # ""
    /\ constraint.allowedDays = {6}

\* the positions of a day's list at which Phase 0 placed the staff member
Phase0Entries(d, id) ==
    {k \in DOMAIN dayAssignmentsMap[d] :
        dayAssignmentsMap[d][k].staffId = id /\ phaseOf[d][k] = 0}

Phase0Placeable(j, constraint) ==
    \E service \in Range(services) :
        /\ service.minDailyCount > 0
        /\ PassesFilters(staff[j], service, day, assignedTodayIds, dayAssignmentsMap,
                         staffStats, Options(FALSE, Undef, Undef, targetSpecialty(constraint)))

AllDaysFilled(result) ==
    /\ result.unfilledSlots = 0
    /\ \A d \in DOMAIN result.schedule :
          LET assignments == result.schedule[d].assignments
          IN  /\ assignments # << >>
              /\ \A k \in DOMAIN assignments : assignments[k].staffId # EMPTY

\* C11 (as claimed): in the scenario of four staff without days off or
\* rooms, quota 3, and one slot type of exactly one person a day over three
\* days, every attempt fills the three days and reports zero unfilled slots.
C11_ScenarioFilled ==
    \A k \in DOMAIN history : AllDaysFilled(history[k].result)

\* no unit constraint names the unit or the specialty of a member of staff
NoConstraintOnStaff ==
    \A j \in DOMAIN inStaff :
        /\ FindConstraint(inStaff[j].unit) = Null
        /\ FindConstraint(SpecName(inStaff[j].specialty)) = Null

\* C11 (amended): in that scenario, when every weekend limit is at least one
\* and no unit constraint names the staff's unit or specialty, every attempt
\* fills the three days and reports zero unfilled slots.
C11_ScenarioFilledAmended ==
    (/\ \A j \in DOMAIN inStaff : inStaff[j].weekendLimit >= 1
     /\ NoConstraintOnStaff)
        => \A k \in DOMAIN history : AllDaysFilled(history[k].result)

\* C11 witness: an attempt over Thursday, Friday, Saturday in a random day
\* order has ended with the three days filled, weekend limit one.
C11_Witness ==
    /\ history # << >>
    /\ config.firstDow = 4
    /\ config.randomizeOrder
    /\ NoConstraintOnStaff
    /\ \A j \in DOMAIN inStaff : inStaff[j].weekendLimit = 1
    /\ AllDaysFilled(history[1].result)

\* the ordinary-shift count a result reports for a member of staff
ResultShifts(result, id) ==
    LET ks == {k \in DOMAIN result.stats : result.stats[k].staffId = id}
    IN  result.stats[Min(ks)].serviceShifts

\* C12 (as claimed): in the schedule generate returns, the shift counts of
\* two active staff of the same tier differ by at most one.
C12_TierSpread ==
    pc = "returned" =>
        \A i, j \in DOMAIN staff :
            staff[i].role = staff[j].role =>
                Abs(ResultShifts(bestResult, staff[i].id)
                        - ResultShifts(bestResult, staff[j].id)) <= 1

\* C13 (as claimed): a member of staff is not assigned on a day that a
\* roommate has marked as a day off.
C13_RoommateOffDay ==
    \A m \in Schedules : \A a, b \in Range(staff) :
        SameRoom(a, b) =>
            \A d \in b.offDays : ~hasShiftOnDay(m, d, a.id)

\* C14: no step of the constructor or of generate changes the caller's
\* staff list, service list or configuration (constraint list included);
\* this.services, which is the caller's array itself, keeps its elements
\* and their order, and this.staff holds the caller's active staff objects
\* with their field values.
C14_InputsUnchanged ==
    [][/\ inStaff' = inStaff
       /\ inServices' = inServices
       /\ config' = config
       /\ pc' # "new" => /\ services' = inServices'
                         /\ staff' = ActiveStaff(inStaff')]_vars

\* C14 witness: generate has returned after two attempts in which the
\* services were processed in an order other than the caller's.
C14_Witness ==
    /\ pc = "returned"
    /\ Len(history) >= 2
    /\ dailyServices # inServices
    /\ services = inServices

\* C15: every attempt starts with zero statistics for every member of
\* staff, an empty list for every day and no unfilled slot; the results of
\* the attempts already run never change; and the retained result changes
\* only at the end of an attempt, to the result of that attempt.
C15_AttemptsIndependent ==
    [][/\ (pc = "retry" /\ pc' = "dayloop") =>
              /\ staffStats' = [id \in StaffIds |-> ZeroStats]
              /\ dayAssignmentsMap' = [d \in Days |-> << >>]
              /\ unfilledSlots' = 0
       /\ \A k \in DOMAIN history : k \in DOMAIN history' /\ history'[k] = history[k]
       /\ (bestResult' # bestResult /\ pc # "constructed") =>
              /\ pc = "dayloop" /\ pc' = "retry"
              /\ bestResult' = history'[Len(history')].result]_vars

\* C15 witness: a second attempt is running on fresh statistics while the
\* retained result of the first attempt holds placements.
C15_Witness ==
    /\ pc = "dayloop"
    /\ attempt = 1
    /\ bestResult # Null
    /\ bestResult = history[1].result
    /\ \E k \in DOMAIN bestResult.stats : bestResult.stats[k].totalShifts > 0
    /\ staffStats = [id \in StaffIds |-> ZeroStats]
    /\ Len(daysToProcess) = daysInMonth

\* the positions <<day, index>> of a day -> assignments map
Positions(m) == UNION {{<<d, k>> : k \in DOMAIN m[d]} : d \in DOMAIN m}

\* the number of entries of the map that name the member of staff on a day
\* whose weekday is in the given set
EntriesOn(m, id, weekdays) ==
    Cardinality({dk \in Positions(m) :
                    /\ m[dk[1]][dk[2]].staffId = id
                    /\ getDayOfWeek(dk[1]) \in weekdays})

\* C16: in every state of an attempt the total and the ordinary count of
\* each member of staff equal the number of entries that name them, the
\* Saturday and Sunday counts the number of those on Saturdays and Sundays,
\* and the weekend count their sum; EMPTY entries, which name no member of
\* staff, count for nobody, and there is no statistic for EMPTY.
C16_StatsMatchAssignments ==
    dayAssignmentsMap # << >> =>
        /\ DOMAIN staffStats = StaffIds
        /\ EMPTY \notin DOMAIN staffStats
        /\ \A id \in StaffIds :
              LET st == staffStats[id]
              IN  /\ st.total = EntriesOn(dayAssignmentsMap, id, 0..6)
                  /\ st.service = EntriesOn(dayAssignmentsMap, id, 0..6)
                  /\ st.saturday = EntriesOn(dayAssignmentsMap, id, {6})
                  /\ st.sunday = EntriesOn(dayAssignmentsMap, id, {0})
                  /\ st.weekend = EntriesOn(dayAssignmentsMap, id, {0, 6})
                  /\ st.weekend = st.saturday + st.sunday
                  /\ st.emergency = 0

\* C16 witness: an attempt in which somebody was placed on a Sunday and on
\* a weekday and an EMPTY entry was recorded.
C16_Witness ==
    /\ dayAssignmentsMap # << >>
    /\ \E id \in StaffIds :
          /\ staffStats[id].sunday = 1
          /\ staffStats[id].total = 2
    /\ EntriesOn(dayAssignmentsMap, EMPTY, 0..6) > 0

\* the role and specialty options the phases search with: a reserved
\* specialty (Phase 0), seniors only (Phase 1), everybody or everybody but
\* the seniors (Phases 2 and 3)
SearchOptions(desperate) ==
    { Options(desperate, Undef, Undef, "transplant"),
      Options(desperate, Undef, Undef, "wound"),
      Options(desperate, 1, Undef, ""),
      Options(desperate, Undef, Undef, ""),
      Options(desperate, Undef, 1, "") }

\* the hard filters, for the current day and state
PassesHardFilters(person, service) ==
    /\ person.id \notin assignedTodayIds
    /\ day \notin person.offDays
    /\ ~hasShiftOnDay(dayAssignmentsMap, day - 1, person.id)
    /\ ~hasShiftOnDay(dayAssignmentsMap, day + 1, person.id)
    /\ UnitEligible(person, service, day)
    /\ RoommateFree(person, day, assignedTodayIds, dayAssignmentsMap)
    /\ staffStats[person.id].service < person.quotaService
    /\ isWeekend(day) => staffStats[person.id].weekend < person.weekendLimit
    /\ ThursdayFree(person, day, dayAssignmentsMap)

\* is the member of staff a candidate of a search in the current state?
IsCandidateNow(person, service, options) ==
    PassesFilters(person, service, day, assignedTodayIds, dayAssignmentsMap,
                  staffStats, options)

\* the candidates of a search in the current state
CandidatesNow(service, options) ==
    Candidates(service, day, assignedTodayIds, dayAssignmentsMap, staffStats, options)

\* C17: in every state of a day, for every service and every role and
\* specialty option, the candidates of a normal search are candidates of the
\* desperate search, the candidates of the desperate search are exactly the
\* staff that pass the option and hard filters, and whoever a desperate
\* search returns passes every hard filter.
C17_DesperateRelaxesFairnessOnly ==
    pc \in {"phase0", "phase2", "phase3"} =>
        \A service \in Range(services) : \A o \in SearchOptions(FALSE) :
            LET od == [o EXCEPT !.desperate = TRUE]
            IN  /\ \A p \in Range(staff) :
                      IsCandidateNow(p, service, o) => IsCandidateNow(p, service, od)
                /\ \A p \in Range(staff) :
                      IsCandidateNow(p, service, od) <=>
                          /\ o.restrictRole # Undef => p.role = o.restrictRole
                          /\ o.excludeRole # Undef => p.role # o.excludeRole
                          /\ o.restrictSpecialty # "" => p.specialty = o.restrictSpecialty
                          /\ PassesHardFilters(p, service)
                /\ \A p \in findBestCandidate(service, day, assignedTodayIds,
                                              dayAssignmentsMap, staffStats, od) :
                      PassesHardFilters(p, service)

\* C17 witness: a state of a day in which a desperate search without role or
\* specialty option has a candidate the normal search rejects, while a
\* member of staff at the quota is rejected by both.
C17_Witness ==
    /\ pc \in {"phase2", "phase3"}
    /\ \E service \in Range(services) : \E p, q \in Range(staff) :
          /\ p \in CandidatesNow(service, Options(TRUE, Undef, Undef, ""))
          /\ p \notin CandidatesNow(service, Options(FALSE, Undef, Undef, ""))
          /\ staffStats[q.id].service >= q.quotaService
          /\ q.quotaService > 0
          /\ q.id \notin assignedTodayIds
          /\ q \notin CandidatesNow(service, Options(TRUE, Undef, Undef, ""))

\* the least ordinary-shift count among the active staff of a tier
TierMinimum(role) ==
    Min({staffStats[q.id].service : q \in {r \in Range(staff) : r.role = role /\ r.isActive}})

\* the searches of a normal (non-desperate) candidate search that leave the
\* member of staff's tier in
NormalOptionsFor(person) ==
    {o \in SearchOptions(FALSE) :
        /\ o.restrictRole # Undef => person.role = o.restrictRole
        /\ o.excludeRole # Undef => person.role # o.excludeRole
        /\ o.restrictSpecialty # "" => person.specialty = o.restrictSpecialty}

\* C18 (as claimed): a normal search rejects a member of staff that passes
\* the hard filters and the vertical fairness filter exactly when the
\* ordinary-shift count exceeds the minimum of the tier by more than one.
C18_BlockedByMoreThanOne ==
    pc \in {"phase0", "phase2", "phase3"} =>
        \A service \in Range(services) : \A p \in Range(staff) :
            \A o \in NormalOptionsFor(p) :
                (PassesHardFilters(p, service) /\ VerticalFair(p, staffStats)) =>
                    (~IsCandidateNow(p, service, o)
                        <=> staffStats[p.id].service > TierMinimum(p.role) + 1)

\* C18 (amended): a normal search rejects such a member of staff exactly
\* when the ordinary-shift count exceeds the minimum of the tier, that is by
\* one or more.
C18_BlockedAboveMinimum ==
    pc \in {"phase0", "phase2", "phase3"} =>
        \A service \in Range(services) : \A p \in Range(staff) :
            \A o \in NormalOptionsFor(p) :
                (PassesHardFilters(p, service) /\ VerticalFair(p, staffStats)) =>
                    (~IsCandidateNow(p, service, o)
                        <=> staffStats[p.id].service > TierMinimum(p.role))

\* C18 witness: a member of staff exactly one shift above the minimum of the
\* tier passes everything but the horizontal fairness filter and is no
\* candidate of the normal search.
C18_Witness ==
    /\ pc \in {"phase2", "phase3"}
    /\ \E service \in Range(services) : \E p \in Range(staff) :
          /\ PassesHardFilters(p, service)
          /\ VerticalFair(p, staffStats)
          /\ staffStats[p.id].service = TierMinimum(p.role) + 1
          /\ p \notin CandidatesNow(service, Options(FALSE, Undef, Undef, ""))
          /\ p \in CandidatesNow(service, Options(TRUE, Undef, Undef, ""))

\* the active staff of the junior tier
ActiveJuniorStaff == {q \in Range(staff) : q.role = 3 /\ q.isActive}

\* C19: a normal search never returns a tier-2 member of staff whose
\* ordinary-shift count is at or above the least ordinary-shift count of the
\* active juniors; without an active junior the normal search keeps every
\* member of staff that passes the option, hard and horizontal filters.
C19_JuniorsFirst ==
    pc \in {"phase0", "phase2", "phase3"} =>
        \A service \in Range(services) : \A o \in SearchOptions(FALSE) :
            /\ \A p \in findBestCandidate(service, day, assignedTodayIds,
                                          dayAssignmentsMap, staffStats, o) :
                  (p.role = 2 /\ ActiveJuniorStaff # {}) =>
                      staffStats[p.id].service
                          < Min({staffStats[q.id].service : q \in ActiveJuniorStaff})
            /\ ActiveJuniorStaff = {} =>
                  \A p \in Range(staff) :
                      IsCandidateNow(p, service, o) <=>
                          /\ o \in NormalOptionsFor(p)
                          /\ PassesHardFilters(p, service)
                          /\ staffStats[p.id].service <= TierMinimum(p.role)

\* C19 witness: a tier-2 member of staff with as many shifts as the lowest
\* junior passes everything but the vertical fairness filter and is no
\* candidate of the normal search.
C19_Witness ==
    /\ pc \in {"phase2", "phase3"}
    /\ ActiveJuniorStaff # {}
    /\ \E j \in DOMAIN inStaff : inStaff[j].role = 3 /\ inStaff[j].isActive
    /\ \E service \in Range(services) : \E p \in Range(staff) :
          /\ p.role = 2
          /\ PassesHardFilters(p, service)
          /\ staffStats[p.id].service <= TierMinimum(2)
          /\ staffStats[p.id].service
                = Min({staffStats[q.id].service : q \in ActiveJuniorStaff})
          /\ staffStats[p.id].service > 0
          /\ p \notin CandidatesNow(service, Options(FALSE, Undef, Undef, ""))

\* C20: nobody is assigned on a Thursday and on the Saturday two days
\* later, or on a Thursday and on the Sunday three days later, in any state
\* of an attempt and in the retained result.
C20_ThursdayWeekend ==
    \A m \in Schedules : \A id \in StaffIds : \A d \in Days :
        getDayOfWeek(d) = 4 =>
            /\ ~(hasShiftOnDay(m, d, id) /\ hasShiftOnDay(m, d + 2, id))
            /\ ~(hasShiftOnDay(m, d, id) /\ hasShiftOnDay(m, d + 3, id))

\* C20 witness: on a Saturday or Sunday processed after the Thursday, a
\* member of staff who worked that Thursday passes every other hard filter
\* for a service below its minimum and is no candidate of a desperate search.
C20_Witness ==
    /\ pc \in {"phase2", "phase3"}
    /\ \E service \in Range(services) : \E p \in Range(staff) :
          /\ \/ getDayOfWeek(day) = 6 /\ hasShiftOnDay(dayAssignmentsMap, day - 2, p.id)
             \/ getDayOfWeek(day) = 0 /\ hasShiftOnDay(dayAssignmentsMap, day - 3, p.id)
          /\ p.id \notin assignedTodayIds
          /\ day \notin p.offDays
          /\ RestFree(p, day, dayAssignmentsMap)
          /\ UnitEligible(p, service, day)
          /\ RoommateFree(p, day, assignedTodayIds, dayAssignmentsMap)
          /\ QuotaFree(p, day, staffStats)
          /\ ServiceCount(currentDayAssignments, service.id) < service.minDailyCount
          /\ p \notin CandidatesNow(service, Options(TRUE, Undef, Undef, ""))

\* the positions of a day's list that hold a member of staff
PlacedOf(assignments, id) ==
    {k \in DOMAIN assignments : assignments[k].staffId = id}

\* C21: in every state, running attempt and retained result alike, nobody
\* is assigned on one of their days off, and nobody holds more than one
\* position of the same day.
C21_AvailableAndOnce ==
    \A m \in Schedules : \A p \in Range(staff) : \A d \in Days :
        /\ d \in p.offDays => ~hasShiftOnDay(m, d, p.id)
        /\ Cardinality(PlacedOf(m[d], p.id)) <= 1

\* C21 witness: during a day a further position is searched for while
\* somebody whose day off it is passes every other filter of a desperate
\* search, and somebody placed today would pass them if not for that.
C21_Witness ==
    /\ pc \in {"phase2", "phase3"}
    /\ \E p, q \in Range(staff) : \E service \in Range(services) :
          /\ day \in p.offDays
          /\ PassesFilters([p EXCEPT !.offDays = {}], service, day, assignedTodayIds,
                           dayAssignmentsMap, staffStats,
                           Options(TRUE, Undef, Undef, ""))
          /\ q.id \in assignedTodayIds
          /\ PassesFilters(q, service, day, assignedTodayIds \ {q.id},
                           dayAssignmentsMap, staffStats,
                           Options(TRUE, Undef, Undef, ""))
          /\ ServiceCount(currentDayAssignments, service.id) < service.maxDailyCount

\* the member of staff and the slot type of an entry that is not a sentinel
StaffOf(entry) == CHOOSE p \in Range(staff) : p.id = entry.staffId

ServiceOf(entry) == CHOOSE sv \in Range(services) : sv.id = entry.serviceId

DoublyConstrained ==
    {p \in Range(staff) :
        /\ p.role # 3
        /\ FindConstraint(p.unit) # Null
        /\ p.specialty # "" /\ p.specialty # "none"
        /\ FindConstraint(SpecName(p.specialty)) # Null}

\* C23: for a member of staff of tier 1 or 2 with a unit constraint and a
\* specialty constraint, the days that pass the unit-and-day filter of a slot
\* type open to their unit are exactly the days whose weekday lies in both
\* allowed-day sets, and every entry that holds them lies on such a day.
C23_Intersection ==
    \A p \in DoublyConstrained :
        LET both == FindConstraint(p.unit).allowedDays
                        \cap FindConstraint(SpecName(p.specialty)).allowedDays
        IN  /\ \A service \in Range(services) : \A d \in Days :
                  (service.allowedUnits # {} => p.unit \in service.allowedUnits)
                      => (UnitEligible(p, service, d) <=> getDayOfWeek(d) \in both)
            /\ \A m \in Schedules : \A d \in Days :
                  hasShiftOnDay(m, d, p.id) => getDayOfWeek(d) \in both

\* C23 witness: the returned schedule holds such a member of staff, in a
\* month with a day that the specialty constraint allows and the unit
\* constraint forbids, and a day that only the unit constraint allows.
C23_Witness ==
    /\ pc = "returned"
    /\ \E p \in DoublyConstrained :
          /\ \E d \in Days : hasShiftOnDay(BestMap, d, p.id)
          /\ \E d \in Days :
                /\ getDayOfWeek(d) \in FindConstraint(SpecName(p.specialty)).allowedDays
                /\ getDayOfWeek(d) \notin FindConstraint(p.unit).allowedDays
          /\ \E d \in Days :
                /\ getDayOfWeek(d) \notin FindConstraint(SpecName(p.specialty)).allowedDays
                /\ getDayOfWeek(d) \in FindConstraint(p.unit).allowedDays

C25_Phase0Placement ==
    [][(pc = "phase0" /\ cIdx <= Len(config.unitConstraints)) =>
          LET constraint == config.unitConstraints[cIdx]
              specialty == IF constraint.unit = Transplantasyon THEN "transplant"
                           ELSE IF constraint.unit = YaraBakim THEN "wound"
                           ELSE ""
              before == dayAssignmentsMap[day]
              after == dayAssignmentsMap'[day]
          IN  /\ Len(after) <= Len(before) + 1
              /\ Len(after) = Len(before) + 1 =>
                    LET entry == after[Len(after)]
                    IN  /\ getDayOfWeek(day) \in constraint.allowedDays
                        /\ specialty # ""
                        /\ entry.staffId # EMPTY
                        /\ StaffOf(entry).specialty = specialty
                        /\ \A k \in DOMAIN before :
                              StaffOf(before[k]).specialty # specialty
                        /\ ServiceCount(before, entry.serviceId)
                              < ServiceOf(entry).maxDailyCount
      ]_vars

\* C26: the step of Phase 1 places at most one member of staff; when it
\* places one, no senior was placed that day before, the member placed is a
\* senior (tier 1), and the slot type that receives the senior held fewer
\* entries than its minimum.
C26_Phase1Placement ==
    [][(pc = "phase0" /\ cIdx > Len(config.unitConstraints)) =>
          LET before == dayAssignmentsMap[day]
              after == dayAssignmentsMap'[day]
          IN  /\ Len(after) <= Len(before) + 1
              /\ Len(after) = Len(before) + 1 =>
                    LET entry == after[Len(after)]
                    IN  /\ \A k \in DOMAIN before : StaffOf(before[k]).role # 1
                        /\ ~seniorAssignedToday
                        /\ entry.staffId # EMPTY
                        /\ StaffOf(entry).role = 1
                        /\ entry.role = 1
                        /\ ServiceCount(before, entry.serviceId)
                              < ServiceOf(entry).minDailyCount
              /\ (\E k \in DOMAIN before : StaffOf(before[k]).role = 1)
                    => after = before
      ]_vars

\* C26 witness: Phase 1 has just placed a senior into a slot type while
\* another slot type was already at its minimum through Phase 0, and on a
\* day finished earlier a senior was placed by Phase 0 and Phase 1 placed
\* nobody.
C26_Witness ==
    /\ pc = "phase2"
    /\ sIdx = 1
    /\ \E k \in DOMAIN phaseOf[day] :
          /\ phaseOf[day][k] = 1
          /\ currentDayAssignments[k].role = 1
          /\ \E sv \in Range(services) :
                /\ sv.id # currentDayAssignments[k].serviceId
                /\ sv.minDailyCount > 0
                /\ Cardinality({j \in 1..(k - 1) :
                                   currentDayAssignments[j].serviceId = sv.id})
                       >= sv.minDailyCount
    /\ \E d \in Days :
          /\ DayDone(d)
          /\ \E k \in DOMAIN phaseOf[d] :
                phaseOf[d][k] = 0 /\ dayAssignmentsMap[d][k].role = 1
          /\ \A k \in DOMAIN phaseOf[d] : phaseOf[d][k] # 1

\* C27: an iteration of the inner loop of Phase 2 finds the slot type below
\* its minimum and adds exactly one entry to the day: the EMPTY sentinel if
\* and only if neither the normal nor the desperate search has a candidate,
\* else a candidate of the normal search, or of the desperate search when the
\* normal one has none.  The unfilled-slot counter rises by one with each
\* sentinel and changes in no other step of an attempt.
C27_SentinelIffNoCandidate ==
    [][/\ (pc = "phase2" /\ sIdx <= Len(dailyServices)
              /\ pos < dailyServices[sIdx].minDailyCount) =>
             LET service == dailyServices[sIdx]
                 normal == CandidatesNow(service, Options(FALSE, Undef, excludeRole, ""))
                 desperate == CandidatesNow(service, Options(TRUE, Undef, excludeRole, ""))
                 before == dayAssignmentsMap[day]
                 after == dayAssignmentsMap'[day]
                 entry == after[Len(after)]
             IN  /\ ServiceCount(before, service.id) < service.minDailyCount
                 /\ Len(after) = Len(before) + 1
                 /\ SubSeq(after, 1, Len(before)) = before
                 /\ entry.serviceId = service.id
                 /\ entry.staffId = EMPTY <=> (normal = {} /\ desperate = {})
                 /\ entry.staffId = EMPTY => unfilledSlots' = unfilledSlots + 1
                 /\ entry.staffId # EMPTY =>
                       /\ unfilledSlots' = unfilledSlots
                       /\ StaffOf(entry) \in (IF normal # {} THEN normal ELSE desperate)
       /\ ~(pc = "phase2" /\ sIdx <= Len(dailyServices)
              /\ pos < dailyServices[sIdx].minDailyCount) =>
             \/ unfilledSlots' = unfilledSlots
             \/ pc' \in {"dayloop", "retry"} /\ unfilledSlots' = 0
      ]_vars

\* C27 witness: Phase 2 has just recorded a sentinel, the counter stands at
\* one, and exactly one member of staff would have passed the desperate
\* search for that slot type had the day not been one of their days off.
C27_Witness ==
    /\ pc = "phase2"
    /\ sIdx <= Len(dailyServices)
    /\ unfilledSlots = 1
    /\ currentDayAssignments # << >>
    /\ currentDayAssignments[Len(currentDayAssignments)].staffId = EMPTY
    /\ currentDayAssignments[Len(currentDayAssignments)].serviceId = dailyServices[sIdx].id
    /\ LET otherwise ==
               {p \in Range(staff) :
                   PassesFilters([p EXCEPT !.offDays = {}], dailyServices[sIdx], day,
                                 assignedTodayIds, dayAssignmentsMap, staffStats,
                                 Options(TRUE, Undef, excludeRole, ""))}
       IN  /\ Cardinality(otherwise) = 1
           /\ \A p \in otherwise : day \in p.offDays

\* C28: a step of Phase 3 never changes the unfilled-slot counter.  It ends
\* the day, placing nobody, when the daily target is not positive or is
\* reached by the entries that hold staff, when no slot type is below its
\* maximum, when no slot type below its maximum has a candidate in the normal
\* or the desperate search, or at the iteration ceiling.  Otherwise it adds
\* one entry, which holds a member of staff, to a slot type that was below
\* its maximum, and the entries holding staff do not exceed the target.
C28_Phase3Step ==
    [][pc = "phase3" =>
          LET before == dayAssignmentsMap[day]
              after == dayAssignmentsMap'[day]
              entry == after[Len(after)]
              reached == \/ config.dailyTotalTarget <= 0
                         \/ NonEmptyCount(before) >= config.dailyTotalTarget
              spare == {sv \in Range(services) :
                           ServiceCount(before, sv.id) < sv.maxDailyCount}
              nobody == \A sv \in spare :
                           /\ ~\E p \in Range(staff) :
                                 IsCandidateNow(p, sv, Options(FALSE, Undef, excludeRole, ""))
                           /\ ~\E p \in Range(staff) :
                                 IsCandidateNow(p, sv, Options(TRUE, Undef, excludeRole, ""))
          IN  /\ unfilledSlots' = unfilledSlots
              /\ IF reached \/ spare = {} \/ nobody \/ protectionCounter >= ProtectionLimit
                 THEN /\ dayAssignmentsMap' = dayAssignmentsMap
                      /\ pc' = "dayloop"
                 ELSE /\ pc' = "phase3"
                      /\ Len(after) = Len(before) + 1
                      /\ SubSeq(after, 1, Len(before)) = before
                      /\ entry.staffId # EMPTY
                      /\ ServiceOf(entry) \in spare
                      /\ NonEmptyCount(after) <= config.dailyTotalTarget
      ]_vars

\* C28 witness: Phase 3 has placed somebody today, the target is not
\* reached and no slot type is below its maximum any more; on a day finished
\* earlier Phase 3 placed nobody although the target was not reached.
C28_Witness ==
    /\ pc = "phase3"
    /\ \E k \in DOMAIN phaseOf[day] : phaseOf[day][k] = 3
    /\ NonEmptyCount(currentDayAssignments) < config.dailyTotalTarget
    /\ \A sv \in Range(services) :
          ServiceCount(currentDayAssignments, sv.id) >= sv.maxDailyCount
    /\ \E d \in Days :
          /\ DayDone(d)
          /\ \A k \in DOMAIN phaseOf[d] : phaseOf[d][k] # 3
          /\ NonEmptyCount(dayAssignmentsMap[d]) < config.dailyTotalTarget
          /\ \E sv \in Range(services) :
                ServiceCount(dayAssignmentsMap[d], sv.id) < sv.maxDailyCount

\* C29: every step of a run brings generate closer to its end: the
\* number of steps still possible, bounded from the attempts left, the days
\* left in the attempt, the constraints left in Phase 0, the positions left
\* in Phase 2 and the iterations left in Phase 3, decreases with every step
\* and is never negative.  The Phase 3 loop of a day never exceeds 50
\* iterations, and each of its iterations either places exactly one member
\* of staff or ends the loop.
C29_Terminates ==
    [][LET nC == Len(config.unitConstraints)
           nS == Len(inServices)
           maxMin == Max({0} \cup {inServices[k].minDailyCount : k \in DOMAIN inServices})
           inPhase3 == 1 + (ProtectionLimit - protectionCounter)
           inPhase2 == (ProtectionLimit + 2) + (nS + 1 - sIdx) * (maxMin + 1)
                         + (IF sIdx <= nS /\ pos < dailyServices[sIdx].minDailyCount
                            THEN dailyServices[sIdx].minDailyCount - pos ELSE 0)
           topPhase2 == (ProtectionLimit + 2) + nS * (maxMin + 1) + maxMin
           inPhase0 == topPhase2 + 1 + (nC + 1 - cIdx)
           perDay == topPhase2 + nC + 4
           perAttempt == perDay * (config.monthLength + 1) + 2
           left == config.maxRetries - attempt
           Remaining ==
               CASE pc = "new" -> perAttempt * (config.maxRetries + 3)
                 [] pc = "constructed" -> perAttempt * (config.maxRetries + 2)
                 [] pc = "retry" -> perAttempt * (left + 1)
                 [] pc = "dayloop" -> perAttempt * left + perDay * Len(daysToProcess) + 1
                 [] pc = "phase0" ->
                       perAttempt * left + perDay * Len(daysToProcess) + 1 + inPhase0
                 [] pc = "phase2" ->
                       perAttempt * left + perDay * Len(daysToProcess) + 1 + inPhase2
                 [] pc = "phase3" ->
                       perAttempt * left + perDay * Len(daysToProcess) + 1 + inPhase3
                 [] OTHER -> 0
       IN  /\ Remaining' < Remaining
           /\ Remaining' >= 0
           /\ Remaining' = 0 <=> pc' \in {"returned", "thrown"}
           /\ protectionCounter' <= ProtectionLimit
           /\ pc = "phase3" =>
                 \/ /\ pc' = "phase3"
                    /\ protectionCounter' = protectionCounter + 1
                    /\ Len(dayAssignmentsMap'[day]) = Len(dayAssignmentsMap[day]) + 1
                    /\ NonEmptyCount(dayAssignmentsMap'[day])
                          = NonEmptyCount(dayAssignmentsMap[day]) + 1
                 \/ /\ pc' = "dayloop"
                    /\ dayAssignmentsMap' = dayAssignmentsMap
      ]_vars

\* C29 witness: generate has returned after MaxRetries attempts, the last of
\* which went through an iteration of Phase 3 that placed somebody.
C29_Witness ==
    /\ pc = "returned"
    /\ attempt = MaxRetries
    /\ attempt = Len(history)
    /\ \E d \in Days :
          NonEmptyCount(history[attempt].result.schedule[d].assignments)
              = config.dailyTotalTarget

\* C30: in the second version of the class, while a day is processed, a
\* member of staff whose group differs from the preferred group of a slot
\* type (set, and not the any-group value) passes no search that is not deep
\* desperate, whatever its other options; and an entry that holds such a
\* member is added only by Phase 2, for the slot type of the current
\* iteration, when neither the normal nor the desperate search of that
\* iteration has a candidate, the member being a candidate of the deep
\* desperate search.
C30_GroupLadder ==
    [][(pc = "v2phase1" \/ pc = "v2phase2") =>
          LET before == dayAssignmentsMap[day]
              after == dayAssignmentsMap'[day]
              entry == after[Len(after)]
              Mismatch(p, sv) == /\ sv.preferredGroup # ""
                                 /\ sv.preferredGroup # Farketmez
                                 /\ p.group # sv.preferredGroup
              Cands(sv, o) ==
                  {q \in Range(staff) :
                      PassesFiltersV2(q, sv, day, assignedTodayIds, dayAssignmentsMap,
                                      staffStats, o)}
              Try(sv, desperate, deepDesperate) ==
                  Cands(sv, OptionsV2(desperate, deepDesperate, excludeRole,
                                      restrictedSpecialtyForSlot(sv)))
          IN  /\ \A sv \in Range(services) : \A p \in Range(staff) :
                    Mismatch(p, sv) =>
                        \A desperate \in BOOLEAN : \A ex \in {Undef, 1} :
                            \A sp \in {"", "transplant", "wound"} :
                                \A rr \in {Undef, 1} :
                                    p \notin Cands(sv, [OptionsV2(desperate, FALSE, ex, sp)
                                                           EXCEPT !.restrictRole = rr])
              /\ (/\ Len(after) = Len(before) + 1
                  /\ entry.staffId # EMPTY
                  /\ Mismatch(StaffOf(entry), ServiceOf(entry))) =>
                    /\ pc = "v2phase2"
                    /\ sIdx <= Len(dailyServices)
                    /\ ServiceOf(entry) = dailyServices[sIdx]
                    /\ Try(dailyServices[sIdx], FALSE, FALSE) = {}
                    /\ Try(dailyServices[sIdx], TRUE, FALSE) = {}
                    /\ StaffOf(entry) \in Try(dailyServices[sIdx], TRUE, TRUE)
      ]_vars

\* C30 witness: Phase 2 has just placed, into the slot type that prefers
\* group A, a member of another group, while a member of group A is held by
\* the same slot type that day.
C30_Witness ==
    /\ pc = "v2phase2"
    /\ currentDayAssignments # << >>
    /\ LET entry == currentDayAssignments[Len(currentDayAssignments)]
       IN  /\ entry.staffId # EMPTY
           /\ ServiceOf(entry).preferredGroup \notin {"", Farketmez}
           /\ entry.group # ServiceOf(entry).preferredGroup
           /\ \E k \in DOMAIN currentDayAssignments :
                 /\ currentDayAssignments[k].serviceId = entry.serviceId
                 /\ currentDayAssignments[k].staffId # EMPTY
                 /\ currentDayAssignments[k].group = ServiceOf(entry).preferredGroup

\* C31: once the engine is constructed, the roommates of a member of staff
\* are exactly the other active staff whose trimmed room identifier is not
\* empty and equals the member's trimmed room identifier; blank rooms give no
\* roommates, the relation is symmetric and never holds the member itself.
C31_RoommatesByTrimmedRoom ==
    pc # "new" =>
        LET active == {inStaff[k] : k \in {j \in DOMAIN inStaff : inStaff[j].isActive # FALSE}}
        IN  /\ DOMAIN roommatesMap = {s.id : s \in active}
            /\ \A s \in active :
                  /\ roommatesMap[s.id] =
                        {o.id : o \in {x \in active :
                                          /\ x.id # s.id
                                          /\ Trim(x.room) # << >>
                                          /\ Trim(x.room) = Trim(s.room)}}
                  /\ Trim(s.room) = << >> => roommatesMap[s.id] = {}
                  /\ s.id \notin roommatesMap[s.id]
                  /\ \A o \in active :
                        o.id \in roommatesMap[s.id] <=> s.id \in roommatesMap[o.id]

\* C32: in every state of a day, for every slot type and every option set, a
\* candidate search returns no one exactly when no member of staff passes
\* the filters; whoever it can return passes them and has a score without
\* jitter above the highest such score among the staff that pass, less the
\* jitter bound.  Every member of staff a step places is such a result of a
\* search made in the state before the step.
C32_SearchResult ==
    [][(pc = "phase0" \/ pc = "phase2" \/ pc = "phase3") =>
          LET Score(p, options) == BaseScore(p, day, dayAssignmentsMap, staffStats, options)
              Eligible(sv, options) == {p \in Range(staff) : IsCandidateNow(p, sv, options)}
              Top(sv, options) == Max({Score(q, options) : q \in Eligible(sv, options)})
              Returned(sv, options) ==
                  findBestCandidate(sv, day, assignedTodayIds, dayAssignmentsMap,
                                    staffStats, options)
              AllOptions == SearchOptions(FALSE) \cup SearchOptions(TRUE)
              before == dayAssignmentsMap[day]
              after == dayAssignmentsMap'[day]
              entry == after[Len(after)]
          IN  /\ \A k \in DOMAIN services : \A options \in AllOptions :
                    /\ Returned(services[k], options) = {}
                          <=> Eligible(services[k], options) = {}
                    /\ \A p \in Returned(services[k], options) :
                          /\ p \in Eligible(services[k], options)
                          /\ Score(p, options) > Top(services[k], options) - JitterBound
              /\ (dayAssignmentsMap' # << >> /\ Len(after) = Len(before) + 1
                     /\ entry.staffId # EMPTY) =>
                    \E options \in AllOptions :
                        /\ StaffOf(entry) \in Eligible(ServiceOf(entry), options)
                        /\ Score(StaffOf(entry), options)
                              > Top(ServiceOf(entry), options) - JitterBound
      ]_vars

\* C32 witness: Phase 2 has just placed a member of staff whom its normal
\* search returned, and that search had further candidates: one within the
\* jitter bound of the best score, who could have been returned too, and one
\* further below, who could not.
C32_Witness ==
    /\ pc = "phase2"
    /\ currentDayAssignments # << >>
    /\ phaseOf[day][Len(currentDayAssignments)] = 2
    /\ LET entry == currentDayAssignments[Len(currentDayAssignments)]
           placed == StaffOf(entry)
           was == [dayAssignmentsMap EXCEPT
                       ![day] = SubSeq(@, 1, Len(@) - 1)]
           stats == [staffStats EXCEPT ![placed.id] =
                        [@ EXCEPT !.service = @ - 1,
                                  !.weekend = IF isWeekend(day) THEN @ - 1 ELSE @]]
           options == Options(FALSE, Undef,
                              IF placed.role = 1 THEN Undef ELSE excludeRole, "")
           cands == Candidates(ServiceOf(entry), day, assignedTodayIds \ {placed.id},
                               was, stats, options)
           Score(p) == BaseScore(p, day, was, stats, options)
       IN  /\ entry.staffId # EMPTY
           /\ placed \in cands
           /\ \E q \in cands \ {placed} :
                 Score(q) + JitterBound > Max({Score(r) : r \in cands})
           /\ \E q \in cands :
                 Score(q) + JitterBound <= Max({Score(r) : r \in cands})

\* C33: in every state of a day, for every slot type and every option set,
\* of two members of staff who pass the filters and are equal in every term
\* of the score but the remaining quota, the one with the smaller remaining
\* quota is never returned by the search, for any draw of the jitters; and no
\* step places a member of staff over such a rival of larger remaining quota.
C33_QuotaHunger ==
    [][(pc = "phase0" \/ pc = "phase2" \/ pc = "phase3") =>
          LET Remaining(p) == p.quotaService - staffStats[p.id].service
              specDay(p) ==
                  /\ p.specialty # "" /\ p.specialty # "none"
                  /\ FindConstraint(SpecName(p.specialty)) # Null
                  /\ getDayOfWeek(day) \in FindConstraint(SpecName(p.specialty)).allowedDays
              OtherTerms(p, options) ==
                  << options.restrictSpecialty # "" /\ p.specialty = options.restrictSpecialty,
                     specDay(p),
                     day \in p.requestedDays,
                     p.role = 3,
                     IF isWeekend(day) THEN staffStats[p.id].weekend ELSE 0,
                     config.preventEveryOtherDay
                        /\ hasShiftOnDay(dayAssignmentsMap, day - 2, p.id) >>
              Hungrier(p, q, sv, options) ==
                  /\ IsCandidateNow(p, sv, options)
                  /\ IsCandidateNow(q, sv, options)
                  /\ OtherTerms(p, options) = OtherTerms(q, options)
                  /\ Remaining(p) > Remaining(q)
              Returned(sv, options) ==
                  findBestCandidate(sv, day, assignedTodayIds, dayAssignmentsMap,
                                    staffStats, options)
              AllOptions == SearchOptions(FALSE) \cup SearchOptions(TRUE)
              before == dayAssignmentsMap[day]
              after == dayAssignmentsMap'[day]
              entry == after[Len(after)]
          IN  /\ \A k \in DOMAIN services : \A options \in AllOptions :
                    \A p, q \in Range(staff) :
                        Hungrier(p, q, services[k], options)
                            => q \notin Returned(services[k], options)
              /\ (dayAssignmentsMap' # << >> /\ Len(after) = Len(before) + 1
                     /\ entry.staffId # EMPTY) =>
                    \E options \in AllOptions :
                        /\ IsCandidateNow(StaffOf(entry), ServiceOf(entry), options)
                        /\ \A p \in Range(staff) :
                              ~Hungrier(p, StaffOf(entry), ServiceOf(entry), options)
      ]_vars

\* C33 witness: Phase 2 has just placed a member of staff whose rival in the
\* normal search, of the same tier, was equal to them in every other term of
\* the score and had a smaller remaining quota.
C33_Witness ==
    /\ pc = "phase2"
    /\ currentDayAssignments # << >>
    /\ phaseOf[day][Len(currentDayAssignments)] = 2
    /\ currentDayAssignments[Len(currentDayAssignments)].staffId # EMPTY
    /\ LET entry == currentDayAssignments[Len(currentDayAssignments)]
           placed == StaffOf(entry)
           was == [dayAssignmentsMap EXCEPT ![day] = SubSeq(@, 1, Len(@) - 1)]
           stats == [staffStats EXCEPT ![placed.id] =
                        [@ EXCEPT !.service = @ - 1,
                                  !.weekend = IF isWeekend(day) THEN @ - 1 ELSE @]]
           options == Options(FALSE, Undef, excludeRole, "")
           cands == Candidates(ServiceOf(entry), day, assignedTodayIds \ {placed.id},
                               was, stats, options)
           specDay(p) ==
               /\ p.specialty # "" /\ p.specialty # "none"
               /\ FindConstraint(SpecName(p.specialty)) # Null
               /\ getDayOfWeek(day) \in FindConstraint(SpecName(p.specialty)).allowedDays
       IN  /\ placed \in cands
           /\ \E q \in cands :
                 /\ q.role = placed.role
                 /\ specDay(q) = specDay(placed)
                 /\ (day \in q.requestedDays) = (day \in placed.requestedDays)
                 /\ isWeekend(day) => stats[q.id].weekend = stats[placed.id].weekend
                 /\ hasShiftOnDay(was, day - 2, q.id) = hasShiftOnDay(was, day - 2, placed.id)
                 /\ q.quotaService - stats[q.id].service
                        < placed.quotaService - stats[placed.id].service

\* C34: on every day of the running attempt and of the retained result at
\* most one entry holds a member of staff of tier 1.
C34_OneSeniorPerDay ==
    \A m \in Schedules : \A d \in DOMAIN m :
        Cardinality({k \in DOMAIN m[d] : m[d][k].staffId # EMPTY /\ m[d][k].role = 1}) <= 1

\* C35: the unfilled-slot count of the result of every finished attempt, and
\* of the result generate keeps, is the number of EMPTY entries over all days
\* of its schedule; the counter of the running attempt is the number of EMPTY
\* entries pushed so far.
C35_UnfilledIsSentinelCount ==
    /\ \A k \in DOMAIN history :
          history[k].result.unfilledSlots
              = Cardinality(ResultSentinels(history[k].result))
    /\ bestResult # Null =>
          bestResult.unfilledSlots = Cardinality(ResultSentinels(bestResult))
    /\ dayAssignmentsMap # << >> =>
          unfilledSlots =
              Cardinality({<<d, k>> \in (DOMAIN dayAssignmentsMap) \X (1..(2 * Len(staff) + 4)) :
                              /\ k \in DOMAIN dayAssignmentsMap[d]
                              /\ dayAssignmentsMap[d][k].staffId = EMPTY})

\* C35 witness: an attempt has finished with three unfilled slots, whose
\* EMPTY entries lie on at least two different days.
C35_Witness ==
    /\ pc = "retry"
    /\ history # << >>
    /\ LET result == history[Len(history)].result
       IN  /\ result.unfilledSlots = 3
           /\ \E a, b \in ResultSentinels(result) : a[1] # b[1]

\* C36: in every step within a day, a slot type that holds an EMPTY entry
\* gains no entry holding a member of staff, in Phase 2 or in Phase 3; and
\* for every slot type the staff that pass the hard filters, and the
\* candidates of the desperate search the phases make, are after the step
\* among those before it.
C36_NothingAfterSentinel ==
    [][((pc = "phase0" \/ pc = "phase2" \/ pc = "phase3")
           /\ (pc' = "phase0" \/ pc' = "phase2" \/ pc' = "phase3")) =>
          LET before == dayAssignmentsMap[day]
              after == dayAssignmentsMap'[day]
          IN  /\ day' = day
              /\ \A k \in DOMAIN services :
                    /\ Sentinels(before, services[k].id) # {} =>
                          Placed(after, services[k].id) = Placed(before, services[k].id)
                    /\ \A j \in DOMAIN staff :
                          /\ PassesHardFilters(staff[j], services[k])'
                                => PassesHardFilters(staff[j], services[k])
                          /\ IsCandidateNow(staff[j], services[k],
                                            Options(TRUE, Undef, excludeRole, ""))'
                                => IsCandidateNow(staff[j], services[k],
                                                  Options(TRUE, Undef, excludeRole, ""))
      ]_vars

\* C36 witness: Phase 3 is about to search, below the daily target, a slot
\* type that holds an EMPTY entry of Phase 2 and is below its maximum, and a
\* senior passes every hard filter for that slot type.
C36_Witness ==
    /\ pc = "phase3"
    /\ Phase3Continues
    /\ \E k \in DOMAIN flexibleServices :
          /\ Sentinels(currentDayAssignments, flexibleServices[k].id) # {}
          /\ \E j \in DOMAIN staff :
                /\ staff[j].role = 1
                /\ PassesHardFilters(staff[j], flexibleServices[k])

\* C37: when an attempt ends, the schedule of its result is the list of the
\* days 1..daysInMonth in ascending order, each once; the entry of a day
\* holds the assignments made for that day, and its weekend flag is set
\* exactly when the day is a Saturday or a Sunday.  The same holds of the
\* result generate keeps.
C37_ScheduleInDayOrder ==
    [][(pc = "dayloop" /\ pc' = "retry") =>
          LET WellFormed(result) ==
                  /\ DOMAIN result.schedule = 1..daysInMonth
                  /\ \A d \in 1..daysInMonth :
                        /\ result.schedule[d].day = d
                        /\ result.schedule[d].isWeekend
                              <=> (config.firstDow + d - 1) % 7 \in {0, 6}
          IN  /\ history' # << >>
              /\ WellFormed(history'[Len(history')].result)
              /\ \A d \in 1..daysInMonth :
                    history'[Len(history')].result.schedule[d].assignments
                        = dayAssignmentsMap[d]
              /\ bestResult' # Null
              /\ WellFormed(bestResult')
      ]_vars

\* C37 witness: an attempt has ended in which the second day of the month, a
\* Thursday, was processed before the first; its schedule holds staff on
\* both days and the Saturday, day 4, is flagged as weekend.
C37_Witness ==
    /\ pc = "retry"
    /\ history # << >>
    /\ getDayDifficulty(2) > getDayDifficulty(1)
    /\ getDayOfWeek(2) = 4
    /\ LET schedule == history[Len(history)].result.schedule
       IN  /\ \E k \in DOMAIN schedule[1].assignments :
                 schedule[1].assignments[k].staffId # EMPTY
           /\ \E k \in DOMAIN schedule[2].assignments :
                 schedule[2].assignments[k].staffId # EMPTY
           /\ schedule[4].isWeekend
           /\ ~schedule[3].isWeekend

\* C38: the end of an attempt replaces the retained result only if no result
\* was retained yet, or the attempt has fewer unfilled slots than the
\* retained one, or as many and a smaller quota deviation; so what generate
\* returns is the earliest of the attempts that have the minimal unfilled
\* count and, among those, the minimal deviation.
C38_EarliestOfTheBest ==
    [][/\ (pc = "dayloop" /\ pc' = "retry") =>
             LET current == history'[Len(history')].result
                 Better ==
                     \/ current.unfilledSlots < bestResult.unfilledSlots
                     \/ /\ current.unfilledSlots = bestResult.unfilledSlots
                        /\ QuotaDeviation(current) < QuotaDeviation(bestResult)
             IN  /\ bestResult = Null => bestResult' = current
                 /\ (bestResult # Null /\ Better) => bestResult' = current
                 /\ (bestResult # Null /\ ~Better) => bestResult' = bestResult
       /\ pc' = "returned" =>
             LET best == {k \in MinimalAttempts :
                             \A j \in MinimalAttempts :
                                 QuotaDeviation(history[k].result)
                                     <= QuotaDeviation(history[j].result)}
             IN  bestResult' = history[Min(best)].result
      ]_vars

\* C38 witness: generate has returned the first of two attempts that ended
\* with different schedules, the same unfilled count and the same deviation.
C38_Witness ==
    /\ pc = "returned"
    /\ \E j, k \in DOMAIN history :
          /\ j < k
          /\ history[j].result.schedule # history[k].result.schedule
          /\ history[j].result.unfilledSlots = history[k].result.unfilledSlots
          /\ QuotaDeviation(history[j].result) = QuotaDeviation(history[k].result)
          /\ bestResult = history[j].result
          /\ \A i \in DOMAIN history :
                \/ history[i].result.unfilledSlots > bestResult.unfilledSlots
                \/ /\ history[i].result.unfilledSlots = bestResult.unfilledSlots
                   /\ QuotaDeviation(history[i].result) >= QuotaDeviation(bestResult)

\* C39: a member of staff handed to the constructor with the active flag
\* false is in no entry of the running attempt, of the result of a finished
\* attempt or of the retained result, has no statistics in any of them, and
\* is neither a key of the roommate map nor a roommate of anybody.
C39_InactiveNeverAppears ==
    \A i \in DOMAIN inStaff :
        inStaff[i].isActive = FALSE =>
            LET id == inStaff[i].id
                results == {history[k].result : k \in DOMAIN history}
                               \cup (IF bestResult = Null THEN {} ELSE {bestResult})
            IN  /\ \A k \in DOMAIN staff : staff[k].id # id
                /\ id \notin DOMAIN roommatesMap
                /\ \A other \in DOMAIN roommatesMap : id \notin roommatesMap[other]
                /\ id \notin DOMAIN staffStats
                /\ \A d \in DOMAIN dayAssignmentsMap :
                      \A k \in DOMAIN dayAssignmentsMap[d] :
                          dayAssignmentsMap[d][k].staffId # id
                /\ \A result \in results :
                      /\ \A k \in DOMAIN result.stats : result.stats[k].staffId # id
                      /\ \A d \in DOMAIN result.schedule :
                            \A k \in DOMAIN result.schedule[d].assignments :
                                result.schedule[d].assignments[k].staffId # id

\* C39 witness: generate has returned a result with an EMPTY entry on a day
\* on which an active member of staff who shares the room of a deactivated
\* one is assigned.
C39_Witness ==
    /\ pc = "returned"
    /\ \E d \in DOMAIN bestResult.schedule :
          LET assignments == bestResult.schedule[d].assignments
          IN  /\ \E k \in DOMAIN assignments : assignments[k].staffId = EMPTY
              /\ \E k \in DOMAIN assignments : \E i, j \in DOMAIN inStaff :
                    /\ inStaff[i].isActive = FALSE
                    /\ inStaff[j].isActive = TRUE
                    /\ inStaff[j].room = inStaff[i].room
                    /\ Trim(inStaff[i].room) # << >>
                    /\ assignments[k].staffId = inStaff[j].id

=============================================================================
